---- MODULE Spec2Model ----
(***************************************************************************)
(* A model of nicecs v1.5.1 (src/nicecs/ecs.hpp): the sparse set, the      *)
(* entity manager with its signature groups, the component manager and     *)
(* the registry facade.                                                    *)
(*                                                                         *)
(* Vectors are TLA+ sequences.  The code indexes from 0, sequences from 1, *)
(* so element i of a vector v is v[i + 1]; dense indices and sparse keys   *)
(* keep the code's 0-based values.                                         *)
(***************************************************************************)
EXTENDS Integers, Sequences, FiniteSets, TLC

VARIABLES
    ss,          \* a stand-alone sparse_set<value>: its three vectors
    ssCapacity,  \* the capacity requested for the stand-alone set's vectors
    ssBound,     \* history: key -> value of every key emplaced and not erased since
    ssPast,      \* history: key -> the value it was bound to when it was last erased
    ssOrder,     \* history: the <<key, value>> pairs emplaced since the set was last empty, in call order, and whether an erase has removed one since
    ssOp,        \* history: the last operation applied to the stand-alone set
    reg,         \* the registries: store name -> [em: entity_manager, cm: m_componentArrays]
    ids,         \* component_manager::m_nextID and the static id of every type seen so far
    created,     \* history: per store, the ids returned by create and not destroyed since
    dropped,     \* history (SpecDestroy): per store, the ids last destroyed while carrying components and given none since
    lastMerge,   \* history: <<[r, other, before, order]>> right after r.merge(other), <<>> after anything else
    outcome,     \* SpecFacade: how the last registry call ended: "ok" or the exception it threw
    mgr,         \* a stand-alone entity_manager
    mgrCreated,  \* history: the ids createEntity returned and destroyEntity has not taken since
    mgrUsed,     \* history: every id createEntity has returned so far
    sinceCopy,   \* history (SpecCopy): the source as it was when store B was last copy-constructed from it, and what B did since
    threads,     \* SpecThreads: per thread its place in getComponentID<T>() and the value of m_nextID it read; per type the state of the guard of the function-local static
    lastCall     \* history: <<[op, ...]>> right after a call that returns a registry or empties one: its operands and its result

ssVars == <<ss, ssCapacity, ssBound, ssPast, ssOrder, ssOp>>

regVars == <<reg, ids, created, lastMerge, dropped, outcome>>

emVars == <<mgr, mgrCreated, mgrUsed>>

copyVars == <<sinceCopy>>

\* what only some of the specifications use
callVars == <<lastCall>>

threadVars == <<threads>>

\* all of these but the one named
notCopyVars == <<callVars, threadVars>>

notCallVars == <<copyVars, threadVars>>

notThreadVars == <<copyVars, callVars>>

auxVars == <<copyVars, callVars, threadVars>>

vars == <<ss, ssCapacity, ssBound, ssPast, ssOrder, ssOp, reg, ids, created, dropped, lastMerge, outcome, mgr, mgrCreated, mgrUsed,
         sinceCopy, threads, lastCall>>

\* ------------------------------------------------------------------ bounds
MaxKey == 2      \* stand-alone sparse set: keys are 0..MaxKey
MaxVal == 1      \* component / element values are 0..MaxVal, 0 the default-constructed one
MaxReserve == 1  \* reserve() is called with 0..MaxReserve
NumEntities == 2 \* entity_manager(numEntities): ids pre-loaded in the free queue
MaxLive == 2     \* create and merge are called while the store ends with at most this many live entities
MaxSource == 1   \* the registry passed to merge was filled by at most this many create calls
MaxBit == 1      \* stand-alone entity_manager: signatures are the subsets of 0..MaxBit
MaxMerged == 2   \* the same, where merges are explored on their own

Stores == {"A", "B"}
Types == {"Position", "Velocity"}

Keys == 0..MaxKey
Values == 0..MaxVal

\* ------------------------------------------------------------ sparse_set
\* sparse_set::null is numeric_limits<size_t>::max(); the model uses the largest
\* integer TLC represents, which like the original is never a dense index.
null == 2147483647

\* sparse_set(capacity): only reserves, the three vectors start empty
sparse_set == [dense |-> <<>>, denseToSparse |-> <<>>, sparse |-> <<>>]

\* the vector m_sparse after resize(n, null) when n exceeds its size
resize(sparse, n) ==
    IF n > Len(sparse) THEN sparse \o [i \in 1..(n - Len(sparse)) |-> null]
    ELSE SubSeq(sparse, 1, n)

\* the vector m_sparse after setDenseIndex(key, index)
setDenseIndex(sparse, key, index) ==
    LET grown == IF key >= Len(sparse) THEN resize(sparse, key + 1) ELSE sparse
    IN  [grown EXCEPT ![key + 1] = index]

getDenseIndex(s, key) ==
    IF key >= Len(s.sparse) THEN null ELSE s.sparse[key + 1]

contains(s, key) == getDenseIndex(s, key) # null

\* get(key): the element a reference to which is returned (the key is bound)
get(s, key) == s.dense[getDenseIndex(s, key) + 1]

\* what ECS_SPARSE_SET_THROW raises in emplace, erase and get: "DuplicateKey" is
\* std::invalid_argument, "KeyNotFound" is std::out_of_range
emplace_thrown(s, key) == IF contains(s, key) THEN "DuplicateKey" ELSE "ok"

erase_thrown(s, key) == IF ~contains(s, key) THEN "KeyNotFound" ELSE "ok"

get_thrown(s, key) == IF ~contains(s, key) THEN "KeyNotFound" ELSE "ok"

\* operator[](key) is "return get(key)": it makes the same test and binds nothing
subscript_thrown(s, key) == get_thrown(s, key)

subscript(s, key) == s

\* mutant: the key is not tested, a second element is appended for it
emplace_unchecked(s, key, value) ==
    [dense |-> Append(s.dense, value),
     sparse |-> setDenseIndex(s.sparse, key, Len(s.dense)),
     denseToSparse |-> Append(s.denseToSparse, key)]

\* mutant: a new element goes to the front of the dense vectors
emplace_front(s, key, value) ==
    IF contains(s, key) THEN s
    ELSE [dense |-> <<value>> \o s.dense,
          sparse |-> setDenseIndex([i \in 1..Len(s.sparse) |->
                                       IF s.sparse[i] = null THEN null ELSE s.sparse[i] + 1],
                                   key, 0),
          denseToSparse |-> <<key>> \o s.denseToSparse]

\* emplace(key, value); on a bound key ECS_SPARSE_SET_THROW stops the call
emplace(s, key, value) ==
    IF contains(s, key) THEN s
    ELSE LET dense == Append(s.dense, value)
             index == Len(dense) - 1
         IN  [dense |-> dense,
              sparse |-> setDenseIndex(s.sparse, key, index),
              denseToSparse |-> Append(s.denseToSparse, key)]

\* mutant: the moved element's sparse entry is not repointed
eraseSwap_noRepoint(s, removedDenseIndex, lastDenseIndex) ==
    LET lastSparseIndex == s.denseToSparse[lastDenseIndex + 1]
    IN  [sparse |-> s.sparse,
         denseToSparse |-> [s.denseToSparse EXCEPT ![removedDenseIndex + 1] = lastSparseIndex],
         dense |-> [s.dense EXCEPT ![removedDenseIndex + 1] = s.dense[lastDenseIndex + 1]]]

\* mutant: the last key moves into the vacated slot, its value does not
eraseSwap_keepsValue(s, removedDenseIndex, lastDenseIndex) ==
    LET lastSparseIndex == s.denseToSparse[lastDenseIndex + 1]
    IN  [sparse |-> setDenseIndex(s.sparse, lastSparseIndex, removedDenseIndex),
         denseToSparse |-> [s.denseToSparse EXCEPT ![removedDenseIndex + 1] = lastSparseIndex],
         dense |-> s.dense]

\* the swap step of erase: the last element moves into the vacated slot
eraseSwap(s, removedDenseIndex, lastDenseIndex) ==
    LET lastSparseIndex == s.denseToSparse[lastDenseIndex + 1]
    IN  [sparse |-> setDenseIndex(s.sparse, lastSparseIndex, removedDenseIndex),
         denseToSparse |-> [s.denseToSparse EXCEPT ![removedDenseIndex + 1] = lastSparseIndex],
         dense |-> [s.dense EXCEPT ![removedDenseIndex + 1] = s.dense[lastDenseIndex + 1]]]

\* mutant: the erased key's sparse entry is not reset to null
erase_keepsEntry(s, key) ==
    IF ~contains(s, key) THEN s
    ELSE LET removedDenseIndex == getDenseIndex(s, key)
             lastDenseIndex == Len(s.dense) - 1
             moved == IF removedDenseIndex # lastDenseIndex
                      THEN eraseSwap(s, removedDenseIndex, lastDenseIndex)
                      ELSE s
         IN  [sparse |-> moved.sparse,
              dense |-> SubSeq(moved.dense, 1, lastDenseIndex),
              denseToSparse |-> SubSeq(moved.denseToSparse, 1, lastDenseIndex)]

\* mutant: the last element is dropped without being moved into the vacated slot
erase_noSwap(s, key) ==
    IF ~contains(s, key) THEN s
    ELSE [sparse |-> setDenseIndex(s.sparse, key, null),
          dense |-> SubSeq(s.dense, 1, Len(s.dense) - 1),
          denseToSparse |-> SubSeq(s.denseToSparse, 1, Len(s.dense) - 1)]

\* erase(key); on an unbound key ECS_SPARSE_SET_THROW stops the call
erase(s, key) ==
    IF ~contains(s, key) THEN s
    ELSE LET removedDenseIndex == getDenseIndex(s, key)
             lastDenseIndex == Len(s.dense) - 1
             moved == IF removedDenseIndex # lastDenseIndex
                      THEN eraseSwap(s, removedDenseIndex, lastDenseIndex)
                      ELSE s
         IN  [sparse |-> setDenseIndex(moved.sparse, key, null),
              dense |-> SubSeq(moved.dense, 1, lastDenseIndex),
              denseToSparse |-> SubSeq(moved.denseToSparse, 1, lastDenseIndex)]

RECURSIVE max_element(_)
max_element(seq) ==
    IF Len(seq) = 1 THEN seq[1]
    ELSE LET m == max_element(Tail(seq)) IN IF seq[1] >= m THEN seq[1] ELSE m

\* mutant: m_sparse is cut to the number of elements
shrink_to_fit_toSize(s) ==
    [s EXCEPT !.sparse = resize(s.sparse, Len(s.dense))]

\* shrink_to_fit(): m_sparse is cut to the largest bound key + 1
shrink_to_fit(s) ==
    LET maxIndex == IF s.denseToSparse # <<>> THEN max_element(s.denseToSparse) + 1 ELSE 0
    IN  [s EXCEPT !.sparse = resize(s.sparse, maxIndex)]

\* what a loop from begin() to end() sees: the [sparse; dense] pair of every dense index
iterate(s) == [i \in 1..Len(s.dense) |-> <<s.denseToSparse[i], s.dense[i]>>]

clear(s) == [dense |-> <<>>, sparse |-> <<>>, denseToSparse |-> <<>>]

empty(s) == s.dense = <<>>

\* get(key) = value: a write through the reference get / operator[] return
assign(s, key, value) == [s EXCEPT !.dense[getDenseIndex(s, key) + 1] = value]

\* -------------------------------------------------------- entity_manager
\* a signature is the set of component ids whose bit is set
MAX_COMPONENTS == 1024

RECURSIVE iota(_, _)
iota(from, to) == IF from > to THEN <<>> ELSE <<from>> \o iota(from + 1, to)

\* entity_manager(numEntities): ids 1..numEntities are queued, m_nextID ends at numEntities + 1
entity_manager(numEntities) ==
    [availableEntityIDs |-> iota(1, numEntities),
     entityGroups |-> << >>,
     livingEntitiesCount |-> 0,
     signatures |-> sparse_set,
     nextID |-> numEntities + 1]

\* m_entityGroups[signature]: the group, default-constructed when the key is absent
groupAt(groups, signature) ==
    IF signature \in DOMAIN groups THEN groups[signature] ELSE sparse_set

\* m_entityGroups.erase(signature)
groupsErase(groups, signature) ==
    [x \in DOMAIN groups \ {signature} |-> groups[x]]

valid(em, entity) ==
    1 <= entity /\ entity < em.nextID /\ contains(em.signatures, entity)

getSignature(em, entity) == get(em.signatures, entity)

\* the id createEntity returns: the front of the free queue
frontEntity(em) == Head(em.availableEntityIDs)

\* mutant: the id is read from the queue but not popped
createEntity_noPop(em, signature) ==
    LET entity == frontEntity(em)
    IN  [availableEntityIDs |-> em.availableEntityIDs,
         nextID |-> em.nextID,
         livingEntitiesCount |-> em.livingEntitiesCount + 1,
         entityGroups |-> (signature :> emplace(groupAt(em.entityGroups, signature), entity, entity))
                          @@ em.entityGroups,
         signatures |-> emplace(em.signatures, entity, signature)]

\* mutant: the entity is created but not counted
createEntity_notCounted(em, signature) ==
    LET entity == frontEntity(em)
        popped == Tail(em.availableEntityIDs)
    IN  [availableEntityIDs |-> IF popped = <<>> THEN <<em.nextID>> ELSE popped,
         nextID |-> IF popped = <<>> THEN em.nextID + 1 ELSE em.nextID,
         livingEntitiesCount |-> em.livingEntitiesCount,
         entityGroups |-> (signature :> emplace(groupAt(em.entityGroups, signature), entity, entity))
                          @@ em.entityGroups,
         signatures |-> emplace(em.signatures, entity, signature)]

createEntity(em, signature) ==
    LET entity == frontEntity(em)
        popped == Tail(em.availableEntityIDs)
    IN  [availableEntityIDs |-> IF popped = <<>> THEN <<em.nextID>> ELSE popped,
         nextID |-> IF popped = <<>> THEN em.nextID + 1 ELSE em.nextID,
         livingEntitiesCount |-> em.livingEntitiesCount + 1,
         entityGroups |-> (signature :> emplace(groupAt(em.entityGroups, signature), entity, entity))
                          @@ em.entityGroups,
         signatures |-> emplace(em.signatures, entity, signature)]

\* the group map after "group.erase(entity); if(group.empty()) m_entityGroups.erase(key)"
leaveGroup(groups, signature, entity) ==
    LET group == erase(groupAt(groups, signature), entity)
    IN  IF empty(group) THEN groupsErase(groups, signature)
        ELSE (signature :> group) @@ groups

\* mutant: the signature record of the entity is kept
destroyEntity_keepsSignature(em, entity) ==
    [em EXCEPT !.livingEntitiesCount = @ - 1,
               !.availableEntityIDs = Append(@, entity),
               !.entityGroups = leaveGroup(@, getSignature(em, entity), entity)]

\* mutant: the destroyed id goes to the front of the queue
destroyEntity_pushFront(em, entity) ==
    [em EXCEPT !.livingEntitiesCount = @ - 1,
               !.availableEntityIDs = <<entity>> \o @,
               !.entityGroups = leaveGroup(@, getSignature(em, entity), entity),
               !.signatures = erase(@, entity)]

\* mutant: the destroyed id is not returned to the queue
destroyEntity_notQueued(em, entity) ==
    [em EXCEPT !.livingEntitiesCount = @ - 1,
               !.entityGroups = leaveGroup(@, getSignature(em, entity), entity),
               !.signatures = erase(@, entity)]

destroyEntity(em, entity) ==
    [em EXCEPT !.livingEntitiesCount = @ - 1,
               !.availableEntityIDs = Append(@, entity),
               !.entityGroups = leaveGroup(@, getSignature(em, entity), entity),
               !.signatures = erase(@, entity)]

\* mutant: the entity is not taken out of the group of its old signature
setSignature_staysInGroup(em, entity, signature) ==
    [em EXCEPT !.signatures = assign(@, entity, signature),
               !.entityGroups = (signature :> emplace(groupAt(@, signature), entity, entity)) @@ @]

setSignature(em, entity, signature) ==
    LET left == leaveGroup(em.entityGroups, getSignature(em, entity), entity)
    IN  [em EXCEPT !.signatures = assign(@, entity, signature),
                   !.entityGroups = (signature :> emplace(groupAt(left, signature), entity, entity))
                                    @@ left]

\* ----------------------------------------------------- component_manager
\* mutant: the id is not static, every call takes a new one from the counter
getComponentID_notStatic(g, T) ==
    [nextID |-> g.nextID + 1, id |-> (T :> g.nextID) @@ [x \in DOMAIN g.id \ {T} |-> g.id[x]]]

\* getComponentID<T>(): the static id of T is initialised from m_nextID++ on the first call
getComponentID(g, T) ==
    IF T \in DOMAIN g.id THEN g
    ELSE [nextID |-> g.nextID + 1, id |-> (T :> g.nextID) @@ g.id]

\* ECS_ASSERT(m_nextID < MAX_COMPONENTS), evaluated by every call of getComponentID
getComponentID_thrown(g, T) == IF g.nextID < MAX_COMPONENTS THEN "ok" ELSE "TooManyComponents"

\* the globals after getComponentID has been called for Ts[1], Ts[2], ... in turn
RECURSIVE getComponentIDs(_, _)
getComponentIDs(g, Ts) ==
    IF Ts = <<>> THEN g ELSE getComponentIDs(getComponentID(g, Head(Ts)), Tail(Ts))

\* mutant: a registered type gets a fresh array again
registerComponent_fresh(cm, id) ==
    IF ~contains(cm, id) THEN emplace(cm, id, sparse_set) ELSE assign(cm, id, sparse_set)

\* registerComponent<T>() for the type whose id is given: a fresh component_array
registerComponent(cm, id) ==
    IF ~contains(cm, id) THEN emplace(cm, id, sparse_set) ELSE cm

\* component_array::onEntityDestroyed
onEntityDestroyed(array, entity) ==
    IF contains(array, entity) THEN erase(array, entity) ELSE array

\* component_array::addEntity: a default-constructed component
addEntity(array, entity) == emplace(array, entity, 0)

\* mutant: the component of the new entity keeps its default value
copyEntityFrom_keepsDefault(array, otherArray, to, from) == array

\* component_array::copyEntityFrom
copyEntityFrom(array, otherArray, to, from) ==
    assign(array, to, get(otherArray, from))

cloneEmpty(array) == sparse_set

\* mutant: the clone holds the entities with default-constructed components
clone_default(array) == [array EXCEPT !.dense = [i \in DOMAIN @ |-> 0]]

clone(array) == array

\* mutant: only the first registered array is notified
entityDestroyed_firstOnly(cm, entity) ==
    [cm EXCEPT !.dense = [i \in 1..Len(cm.dense) |->
                             IF i = 1 THEN onEntityDestroyed(cm.dense[i], entity) ELSE cm.dense[i]]]

\* component_manager::entityDestroyed: every array in m_componentArrays.data() is notified
entityDestroyed(cm, entity) ==
    [cm EXCEPT !.dense = [i \in 1..Len(cm.dense) |-> onEntityDestroyed(cm.dense[i], entity)]]

\* component_manager::operator=: every array of other is cloned and emplaced, in dense order
RECURSIVE component_manager_assign(_, _, _)
component_manager_assign(cm, other, i) ==
    IF i > Len(other.dense) THEN cm
    ELSE component_manager_assign(
             emplace(cm, other.denseToSparse[i], clone(other.dense[i])), other, i + 1)

\* component_manager::operator= on a manager that may hold arrays: the emplace of an id
\* that is already bound raises, and the loop stops there
RECURSIVE component_manager_assign_raised(_, _, _)
component_manager_assign_raised(cm, other, i) ==
    IF i > Len(other.dense) THEN cm
    ELSE IF contains(cm, other.denseToSparse[i]) THEN cm
    ELSE component_manager_assign_raised(
             emplace(cm, other.denseToSparse[i], clone(other.dense[i])), other, i + 1)

\* --------------------------------------------------------------- registry
registry == [em |-> entity_manager(NumEntities), cm |-> sparse_set]

\* registerComponent for each of the types Ts, in turn (their ids are assigned in g)
RECURSIVE registerComponents(_, _, _)
registerComponents(cm, g, Ts) ==
    IF Ts = <<>> THEN cm
    ELSE registerComponents(registerComponent(cm, g.id[Head(Ts)]), g, Tail(Ts))

make_signature(g, Ts) == {g.id[Ts[i]] : i \in 1..Len(Ts)}

\* registry::has: the signature bit of T (T's array is registered on the way)
has(st, g, entity, T) == g.id[T] \in getSignature(st.em, entity)

\* getComponentArray<T>()->emplace(entity, value) for each T of Ts, in turn
RECURSIVE emplaceComponents(_, _, _, _, _)
emplaceComponents(cm, g, Ts, entity, values) ==
    IF Ts = <<>> THEN cm
    ELSE emplaceComponents(
             assign(cm, g.id[Head(Ts)], emplace(get(cm, g.id[Head(Ts)]), entity, Head(values))),
             g, Tail(Ts), entity, Tail(values))

\* registry::create<Ts...>(values...), and create<Ts...>() with default values
registry_create(st, g, Ts, values) ==
    LET registered == registerComponents(st.cm, g, Ts)
        signature == make_signature(g, Ts)
        entity == frontEntity(st.em)
    IN  [em |-> createEntity(st.em, signature),
         cm |-> emplaceComponents(registered, g, Ts, entity, values)]

\* the loop of the private create(signature): addEntity in every array of the signature
RECURSIVE addToArrays(_, _, _, _, _)
addToArrays(cm, signature, entity, id, nextID) ==
    IF id >= nextID THEN cm
    ELSE addToArrays(
             IF id \in signature THEN assign(cm, id, addEntity(get(cm, id), entity)) ELSE cm,
             signature, entity, id + 1, nextID)

\* the private registry::create(signature)
create_signature(st, g, signature) ==
    [em |-> createEntity(st.em, signature),
     cm |-> addToArrays(st.cm, signature, frontEntity(st.em), 0, g.nextID)]

registry_emplace(st, g, entity, T, value) ==
    IF has(st, g, entity, T) THEN st
    ELSE [em |-> setSignature(st.em, entity, getSignature(st.em, entity) \cup {g.id[T]}),
          cm |-> assign(st.cm, g.id[T], emplace(get(st.cm, g.id[T]), entity, value))]

\* mutant: the signature bit is cleared but the component stays in its array
registry_remove_keepsComponent(st, g, entity, T) ==
    IF ~has(st, g, entity, T) THEN st
    ELSE [em |-> setSignature(st.em, entity, getSignature(st.em, entity) \ {g.id[T]}),
          cm |-> st.cm]

registry_remove(st, g, entity, T) ==
    IF ~has(st, g, entity, T) THEN st
    ELSE [em |-> setSignature(st.em, entity, getSignature(st.em, entity) \ {g.id[T]}),
          cm |-> assign(st.cm, g.id[T], erase(get(st.cm, g.id[T]), entity))]

\* a write through the reference registry::get<T>(entity) returns
registry_get_assign(st, g, entity, T, value) ==
    IF ~has(st, g, entity, T) THEN st
    ELSE [st EXCEPT !.cm = assign(@, g.id[T], assign(get(@, g.id[T]), entity, value))]

registry_destroy(st, entity) ==
    [em |-> destroyEntity(st.em, entity),
     cm |-> entityDestroyed(st.cm, entity)]

\* merge, first inner loop: arrays missing here are cloned empty from the other store
RECURSIVE mergeRegister(_, _, _, _, _)
mergeRegister(cm, otherCm, signature, id, nextID) ==
    IF id >= nextID THEN cm
    ELSE mergeRegister(
             IF id \in signature /\ ~contains(cm, id)
             THEN emplace(cm, id, cloneEmpty(get(otherCm, id))) ELSE cm,
             otherCm, signature, id + 1, nextID)

\* merge, innermost loop: copy every component of the signature from other_entity to entity
RECURSIVE mergeCopy(_, _, _, _, _, _, _)
mergeCopy(cm, otherCm, signature, entity, other_entity, id, nextID) ==
    IF id >= nextID THEN cm
    ELSE mergeCopy(
             IF id \in signature
             THEN assign(cm, id, copyEntityFrom(get(cm, id), get(otherCm, id), entity, other_entity))
             ELSE cm,
             otherCm, signature, entity, other_entity, id + 1, nextID)

\* mutant: the loop over the group's entities creates nothing
mergeEntities_none(st, other, g, signature, entities, i) == st

\* merge, second inner loop: one new entity per entity of the group, in dense order
RECURSIVE mergeEntities(_, _, _, _, _, _)
mergeEntities(st, other, g, signature, entities, i) ==
    IF i > Len(entities) THEN st
    ELSE LET entity == frontEntity(st.em)
             made == create_signature(st, g, signature)
         IN  mergeEntities(
                 [made EXCEPT !.cm = mergeCopy(@, other.cm, signature, entity, entities[i], 0, g.nextID)],
                 other, g, signature, entities, i + 1)

\* registry::merge(other); order is the order in which the unordered_map yields other's groups
RECURSIVE registry_merge(_, _, _, _, _)
registry_merge(st, other, g, order, n) ==
    IF n > Len(order) THEN st
    ELSE LET signature == order[n]
             registered == [st EXCEPT !.cm = mergeRegister(@, other.cm, signature, 0, g.nextID)]
         IN  registry_merge(
                 mergeEntities(registered, other, g, signature,
                               other.em.entityGroups[signature].dense, 1),
                 other, g, order, n + 1)

\* the orders in which an unordered_map may yield the keys S
Orders(S) == {f \in [1..Cardinality(S) -> S] : \A i, j \in 1..Cardinality(S) : f[i] = f[j] => i = j}

\* mutant: the list is ignored and every entity of other is merged
registry_merge_subset_all(st, other, g, list, i) ==
    registry_merge(st, other, g, CHOOSE order \in Orders(DOMAIN other.em.entityGroups) : TRUE, 1)

\* merge(subsetOfOtherEntities, other): merge restricted to the listed entities of other,
\* one at a time under the signature the entity has in other
RECURSIVE registry_merge_subset(_, _, _, _, _)
registry_merge_subset(st, other, g, list, i) ==
    IF i > Len(list) THEN st
    ELSE LET signature == getSignature(other.em, list[i])
             registered == [st EXCEPT !.cm = mergeRegister(@, other.cm, signature, 0, g.nextID)]
         IN  registry_merge_subset(
                 mergeEntities(registered, other, g, signature, <<list[i]>>, 1),
                 other, g, list, i + 1)

\* mutant: only other is merged into the result
registry_merged_otherOnly(st, other, g, order, otherOrder) ==
    registry_merge(registry, other, g, otherOrder, 1)

\* registry::merged(other): a new registry, *this merged into it and then other
registry_merged(st, other, g, order, otherOrder) ==
    registry_merge(registry_merge(registry, st, g, order, 1), other, g, otherOrder, 1)

\* mutant: the copy starts with the queue of free ids of a new entity manager
registry_copy_newQueue(other) ==
    [em |-> [other.em EXCEPT !.availableEntityIDs = entity_manager(NumEntities).availableEntityIDs],
     cm |-> component_manager_assign(sparse_set, other.cm, 1)]

\* the copy constructor: entity_manager member-wise, component_manager through operator=
registry_copy(other) ==
    [em |-> other.em, cm |-> component_manager_assign(sparse_set, other.cm, 1)]

\* mutant: a group matches when it shares a bit with required
RECURSIVE view_any(_, _, _, _)
view_any(m, required, excluded, order) ==
    IF order = <<>> THEN <<>>
    ELSE (IF (Head(order) \cap required) # {} /\ (Head(order) \cap excluded) = {}
          THEN m.entityGroups[Head(order)].dense ELSE <<>>)
         \o view_any(m, required, excluded, Tail(order))

\* registry::view(required, excluded); order is the order in which the unordered_map
\* yields the groups
RECURSIVE view(_, _, _, _)
view(m, required, excluded, order) ==
    IF order = <<>> THEN <<>>
    ELSE (IF (Head(order) \cap required) = required /\ (Head(order) \cap excluded) = {}
          THEN m.entityGroups[Head(order)].dense ELSE <<>>)
         \o view(m, required, excluded, Tail(order))

\* mutant: the excluded bits are not looked at
RECURSIVE view_any_of_ignoresExcluded(_, _, _, _)
view_any_of_ignoresExcluded(m, mayHave, excluded, order) ==
    IF order = <<>> THEN <<>>
    ELSE (IF (Head(order) \cap mayHave) # {}
          THEN m.entityGroups[Head(order)].dense ELSE <<>>)
         \o view_any_of_ignoresExcluded(m, mayHave, excluded, Tail(order))

\* registry::view_any_of(mayHave, excluded): the groups whose signature has any bit of
\* mayHave and none of excluded, in the order the unordered_map yields them
RECURSIVE view_any_of(_, _, _, _)
view_any_of(m, mayHave, excluded, order) ==
    IF order = <<>> THEN <<>>
    ELSE (IF (Head(order) \cap mayHave) # {} /\ (Head(order) \cap excluded) = {}
          THEN m.entityGroups[Head(order)].dense ELSE <<>>)
         \o view_any_of(m, mayHave, excluded, Tail(order))

\* mutant: only the first entity of the view is destroyed
registry_clear_first(st, order) ==
    IF view(st.em, {}, {}, order) = <<>> THEN st
    ELSE registry_destroy(st, view(st.em, {}, {}, order)[1])

\* clear(), second half: destroy(entity) for every entity of the list
RECURSIVE destroyEach(_, _, _)
destroyEach(st, list, i) ==
    IF i > Len(list) THEN st ELSE destroyEach(registry_destroy(st, list[i]), list, i + 1)

\* clear(): every entity view<>() returns is destroyed
registry_clear(st, order) == destroyEach(st, view(st.em, {}, {}, order), 1)

\* registry::size(): the count the entity manager keeps of its living entities
size(st) == st.em.livingEntitiesCount


\* the sequences of distinct types a template parameter pack can name
TypeLists == UNION {Orders(S) : S \in SUBSET Types}

\* the template parameter packs of create<Ts...>: any types, a type may be repeated
MaxPack == 2

\* the copy takes create calls until it has made this many entities
MaxMade == 2

\* and this many destroy calls
MaxGone == 1

\* and the two stores this many other calls after the copy
MaxOthers == 2

TypePacks == UNION {[1..n -> Types] : n \in 0..MaxPack}

\* the entities of a store for which valid() is true
Live(st) == {e \in 0..(st.em.nextID + 1) : valid(st.em, e)}

\* ------------------------------------------------------- registry: actions
RegInit ==
    /\ reg = [r \in Stores |-> registry]
    /\ ids = [nextID |-> 0, id |-> << >>]
    /\ created = [r \in Stores |-> {}]
    /\ dropped = [r \in Stores |-> {}]
    /\ outcome = "ok"
    /\ lastMerge = <<>>
    /\ sinceCopy = <<>>
    /\ lastCall = <<>>
    /\ threads = [proc |-> [t \in {1, 2} |-> [pc |-> "idle", T |-> "none", tmp |-> 0, result |-> null]],
                  guard |-> [T \in Types |-> "uninitialised"]]

\* create<Ts...>(): default-constructed components
CreateDefault(r, Ts) ==
    /\ reg[r].em.livingEntitiesCount < MaxLive
    /\ ids.nextID < MAX_COMPONENTS
    /\ ids' = getComponentIDs(ids, Ts)
    /\ reg' = [reg EXCEPT ![r] = registry_create(@, ids', Ts, [i \in 1..Len(Ts) |-> 0])]
    /\ created' = [created EXCEPT ![r] = @ \cup {frontEntity(reg[r].em)}]
    /\ lastMerge' = <<>>

\* create<Ts...>(values...)
CreateWith(r, Ts, values) ==
    /\ Ts # <<>>
    /\ reg[r].em.livingEntitiesCount < MaxLive
    /\ ids.nextID < MAX_COMPONENTS
    /\ ids' = getComponentIDs(ids, Ts)
    /\ reg' = [reg EXCEPT ![r] = registry_create(@, ids', Ts, values)]
    /\ created' = [created EXCEPT ![r] = @ \cup {frontEntity(reg[r].em)}]
    /\ lastMerge' = <<>>

\* has<T>(entity) on a valid entity: T is registered lazily
Has(r, entity, T) ==
    /\ valid(reg[r].em, entity)
    /\ ids.nextID < MAX_COMPONENTS
    /\ ids' = getComponentID(ids, T)
    /\ reg' = [reg EXCEPT ![r].cm = registerComponent(@, ids'.id[T])]
    /\ lastMerge' = <<>>
    /\ UNCHANGED created

\* emplace<T>(entity, value) on a valid entity
Emplace(r, entity, T, value) ==
    /\ valid(reg[r].em, entity)
    /\ ids.nextID < MAX_COMPONENTS
    /\ ids' = getComponentID(ids, T)
    /\ reg' = [reg EXCEPT ![r] =
                  registry_emplace([@ EXCEPT !.cm = registerComponent(@, ids'.id[T])],
                                   ids', entity, T, value)]
    /\ lastMerge' = <<>>
    /\ UNCHANGED created

\* remove<T>(entity) on a valid entity
Remove(r, entity, T) ==
    /\ valid(reg[r].em, entity)
    /\ ids.nextID < MAX_COMPONENTS
    /\ ids' = getComponentID(ids, T)
    /\ reg' = [reg EXCEPT ![r] =
                  registry_remove([@ EXCEPT !.cm = registerComponent(@, ids'.id[T])],
                                  ids', entity, T)]
    /\ lastMerge' = <<>>
    /\ UNCHANGED created

\* get<T>(entity) = value on a valid entity
GetAssign(r, entity, T, value) ==
    /\ valid(reg[r].em, entity)
    /\ ids.nextID < MAX_COMPONENTS
    /\ ids' = getComponentID(ids, T)
    /\ reg' = [reg EXCEPT ![r] =
                  registry_get_assign([@ EXCEPT !.cm = registerComponent(@, ids'.id[T])],
                                      ids', entity, T, value)]
    /\ lastMerge' = <<>>
    /\ UNCHANGED created

\* destroy(entity) on a valid entity
Destroy(r, entity) ==
    /\ valid(reg[r].em, entity)
    /\ reg' = [reg EXCEPT ![r] = registry_destroy(@, entity)]
    /\ created' = [created EXCEPT ![r] = @ \ {entity}]
    /\ lastMerge' = <<>>
    /\ UNCHANGED ids

\* the type lists of the create calls that fill a registry to be merged
SourceLists == {<<>>, <<"Position">>, <<"Velocity">>, <<"Position", "Velocity">>}

\* the arguments of one such create call
CreateArgs == {[Ts |-> Ts, values |-> values] : <<Ts, values>> \in
                  UNION {{<<Ts, values>> : values \in [1..Len(Ts) -> Values]} : Ts \in SourceLists}}

\* a registry other than the stores: a new registry filled by the create calls src,
\* together with the component ids after these calls
RECURSIVE build(_, _, _)
build(st, g, src) ==
    IF src = <<>> THEN [st |-> st, g |-> g]
    ELSE LET g1 == getComponentIDs(g, Head(src).Ts)
         IN  build(registry_create(st, g1, Head(src).Ts, Head(src).values), g1, Tail(src))

\* the ids n successive createEntity calls return
RECURSIVE returned(_, _)
returned(m, n) ==
    IF n = 0 THEN <<>> ELSE <<frontEntity(m)>> \o returned(createEntity(m, {}), n - 1)

\* the number of entities merge creates: one per entity of each group of other
RECURSIVE mergeCount(_, _)
mergeCount(other, order) ==
    IF order = <<>> THEN 0
    ELSE Len(other.em.entityGroups[Head(order)].dense) + mergeCount(other, Tail(order))

\* r.merge(other): other is a registry distinct from r, g the component ids it was built under
Merge(r, other, g, order) ==
    /\ ids' = g
    /\ reg' = [reg EXCEPT ![r] = registry_merge(@, other, g, order, 1)]
    /\ created' = [created EXCEPT ![r] =
                       @ \cup {returned(reg[r].em, mergeCount(other, order))[i] :
                                   i \in 1..mergeCount(other, order)}]
    /\ lastMerge' = <<[r |-> r, other |-> other, before |-> reg[r], order |-> order]>>

\* registry copy = o; and the program carries on with the copy under the name r
Copy(r, o) ==
    /\ reg' = [reg EXCEPT ![r] = registry_copy(reg[o])]
    /\ created' = [created EXCEPT ![r] = created[o]]
    /\ lastMerge' = <<>>
    /\ UNCHANGED ids

Entities == 0..(NumEntities + MaxLive + 1)

\* one registry, A, takes every operation; the registries merged into it are built
\* by create calls and are dropped after the merge
Next ==
    \/ \E Ts \in TypeLists : CreateDefault("A", Ts) /\ UNCHANGED <<ssVars, emVars, auxVars, dropped, outcome>>
    \/ \E Ts \in TypeLists : \E values \in [1..Len(Ts) -> Values] :
           CreateWith("A", Ts, values) /\ UNCHANGED <<ssVars, emVars, auxVars, dropped, outcome>>
    \/ \E e \in Entities, T \in Types : Has("A", e, T) /\ UNCHANGED <<ssVars, emVars, auxVars, dropped, outcome>>
    \/ \E e \in Entities, T \in Types, v \in Values : Emplace("A", e, T, v) /\ UNCHANGED <<ssVars, emVars, auxVars, dropped, outcome>>
    \/ \E e \in Entities, T \in Types : Remove("A", e, T) /\ UNCHANGED <<ssVars, emVars, auxVars, dropped, outcome>>
    \/ \E e \in Entities, T \in Types, v \in Values : GetAssign("A", e, T, v) /\ UNCHANGED <<ssVars, emVars, auxVars, dropped, outcome>>
    \/ \E e \in Entities : Destroy("A", e) /\ UNCHANGED <<ssVars, emVars, auxVars, dropped, outcome>>
    \/ \E n \in 0..MaxSource : \E src \in [1..n -> CreateArgs] :
           /\ reg["A"].em.livingEntitiesCount + n <= MaxLive
           /\ LET other == build(registry, ids, src)
              IN  \E order \in Orders(DOMAIN other.st.em.entityGroups) :
                      Merge("A", other.st, other.g, order)
           /\ UNCHANGED <<ssVars, emVars, auxVars, dropped, outcome>>
    \/ Copy("A", "A") /\ UNCHANGED <<ssVars, emVars, auxVars, dropped, outcome>>

\* history kept next to an operation on store r: the ids in given received components,
\* the ids in taken were destroyed while carrying components
Dropped(r, given, taken) == dropped' = [dropped EXCEPT ![r] = (@ \ given) \cup taken]

\* one registry whose entities are created, given and stripped of components, and
\* destroyed, with the record of the ids destroyed while carrying components
NextDestroy ==
    \/ \E Ts \in TypeLists :
           /\ CreateDefault("A", Ts)
           /\ Dropped("A", IF Ts = <<>> THEN {} ELSE {frontEntity(reg["A"].em)}, {})
           /\ UNCHANGED <<ssVars, emVars, auxVars, outcome>>
    \/ \E Ts \in TypeLists : \E values \in [1..Len(Ts) -> Values] :
           /\ CreateWith("A", Ts, values)
           /\ Dropped("A", {frontEntity(reg["A"].em)}, {})
           /\ UNCHANGED <<ssVars, emVars, auxVars, outcome>>
    \/ \E e \in Entities, T \in Types, v \in Values :
           Emplace("A", e, T, v) /\ Dropped("A", {e}, {}) /\ UNCHANGED <<ssVars, emVars, auxVars, outcome>>
    \/ \E e \in Entities, T \in Types :
           Remove("A", e, T) /\ Dropped("A", {}, {}) /\ UNCHANGED <<ssVars, emVars, auxVars, outcome>>
    \/ \E e \in Entities :
           /\ Destroy("A", e)
           /\ Dropped("A", {e}, IF getSignature(reg["A"].em, e) = {} THEN {} ELSE {e})
           /\ UNCHANGED <<ssVars, emVars, auxVars, outcome>>

\* ------------------------------------------- registry calls with their checks
\* a call returns normally, or throws: "InvalidEntity" is std::invalid_argument{"invalid
\* entity identifier!"}, "ComponentNotFound" is std::out_of_range, "DuplicateComponent" is
\* std::invalid_argument{"component to emplace already added!"}
Return(st, g) == [st |-> st, g |-> g, thrown |-> "ok"]

Throw(st, g, what) == [st |-> st, g |-> g, thrown |-> what]

\* has<T>(entity)
has_call(st, g, entity, T) ==
    IF ~valid(st.em, entity) THEN Throw(st, g, "InvalidEntity")
    ELSE Return([st EXCEPT !.cm = registerComponent(@, getComponentID(g, T).id[T])],
                getComponentID(g, T))

\* get<T>(entity) = value
get_call(st, g, entity, T, value) ==
    IF ~valid(st.em, entity) THEN Throw(st, g, "InvalidEntity")
    ELSE LET h == has_call(st, g, entity, T)
         IN  IF ~has(h.st, h.g, entity, T) THEN Throw(h.st, h.g, "ComponentNotFound")
             ELSE Return(registry_get_assign(h.st, h.g, entity, T, value), h.g)

\* mutant: removing a component the entity lacks is silently ignored
remove_call_silent(st, g, entity, T) ==
    IF ~valid(st.em, entity) THEN Throw(st, g, "InvalidEntity")
    ELSE LET h == has_call(st, g, entity, T)
         IN  Return(registry_remove(h.st, h.g, entity, T), h.g)

\* remove<T>(entity)
remove_call(st, g, entity, T) ==
    IF ~valid(st.em, entity) THEN Throw(st, g, "InvalidEntity")
    ELSE LET h == has_call(st, g, entity, T)
         IN  IF ~has(h.st, h.g, entity, T) THEN Throw(h.st, h.g, "ComponentNotFound")
             ELSE Return(registry_remove(h.st, h.g, entity, T), h.g)

\* mutant: emplacing a component the entity has overwrites its value
emplace_call_overwrites(st, g, entity, T, value) ==
    IF ~valid(st.em, entity) THEN Throw(st, g, "InvalidEntity")
    ELSE LET h == has_call(st, g, entity, T)
         IN  IF has(h.st, h.g, entity, T)
             THEN Return(registry_get_assign(h.st, h.g, entity, T, value), h.g)
             ELSE Return(registry_emplace(h.st, h.g, entity, T, value), h.g)

\* mutant: has<T>(entity) is asked first, without its own validity check, so T is
\* registered before the entity is found invalid
emplace_call_registersFirst(st, g, entity, T, value) ==
    LET g1 == getComponentID(g, T)
        st1 == [st EXCEPT !.cm = registerComponent(@, g1.id[T])]
    IN  IF ~valid(st.em, entity) THEN Throw(st1, g1, "InvalidEntity")
        ELSE IF has(st1, g1, entity, T) THEN Throw(st1, g1, "DuplicateComponent")
        ELSE Return(registry_emplace(st1, g1, entity, T, value), g1)

\* emplace<T>(entity, value)
emplace_call(st, g, entity, T, value) ==
    IF ~valid(st.em, entity) THEN Throw(st, g, "InvalidEntity")
    ELSE LET h == has_call(st, g, entity, T)
         IN  IF has(h.st, h.g, entity, T) THEN Throw(h.st, h.g, "DuplicateComponent")
             ELSE Return(registry_emplace(h.st, h.g, entity, T, value), h.g)

\* destroy(entity)
destroy_call(st, g, entity) ==
    IF ~valid(st.em, entity) THEN Throw(st, g, "InvalidEntity")
    ELSE Return(registry_destroy(st, entity), g)

\* size(entity) and empty(entity): the count of the signature, or whether it is none
size_call(st, g, entity) ==
    IF ~valid(st.em, entity) THEN Throw(st, g, "InvalidEntity") ELSE Return(st, g)

\* same(first, second)
same_call(st, g, first, second) ==
    IF ~valid(st.em, first) \/ ~valid(st.em, second) THEN Throw(st, g, "InvalidEntity")
    ELSE Return(st, g)

\* ---- the checks inside the containers that a facade call runs into ----
\* Each operator gives the first failed check on the path of the call, or "ok":
\* "DuplicateKey" and "KeyNotFound" are the tests of sparse_set::emplace, erase and
\* get, "NotRegistered" the assertions on the registered component arrays.

\* the first failure leaves the call: what follows is not executed
Then(first, rest) == IF first # "ok" THEN first ELSE rest

getComponentArray_thrown(cm, id) == IF contains(cm, id) THEN "ok" ELSE "NotRegistered"

createEntity_thrown(em, signature) ==
    Then(emplace_thrown(groupAt(em.entityGroups, signature), frontEntity(em)),
         emplace_thrown(em.signatures, frontEntity(em)))

destroyEntity_thrown(em, entity) ==
    Then(get_thrown(em.signatures, entity),
    Then(erase_thrown(groupAt(em.entityGroups, getSignature(em, entity)), entity),
         erase_thrown(em.signatures, entity)))

setSignature_thrown(em, entity, signature) ==
    Then(get_thrown(em.signatures, entity),
    Then(erase_thrown(groupAt(em.entityGroups, getSignature(em, entity)), entity),
         emplace_thrown(groupAt(leaveGroup(em.entityGroups, getSignature(em, entity), entity),
                                signature), entity)))

\* the fold of create<Ts...>: getComponentArray<T>()->emplace(entity, value) for every T
\* of the pack, in order, until one of them fails
RECURSIVE emplaceEach(_, _, _, _, _)
emplaceEach(cm, g, Ts, entity, values) ==
    IF Ts = <<>> THEN [cm |-> cm, thrown |-> "ok"]
    ELSE LET id == g.id[Head(Ts)]
             failed == Then(getComponentArray_thrown(cm, id),
                            emplace_thrown(get(cm, id), entity))
         IN  IF failed # "ok" THEN [cm |-> cm, thrown |-> failed]
             ELSE emplaceEach(assign(cm, id, emplace(get(cm, id), entity, Head(values))),
                              g, Tail(Ts), entity, Tail(values))

\* create<Ts...>(values...) and create<Ts...>() for any pack
create_call(st, g, Ts, values) ==
    LET g1 == getComponentIDs(g, Ts)
        registered == registerComponents(st.cm, g1, Ts)
        signature == make_signature(g1, Ts)
        entity == frontEntity(st.em)
        made == createEntity_thrown(st.em, signature)
        filled == emplaceEach(registered, g1, Ts, entity, values)
    IN  IF made # "ok" THEN Throw([st EXCEPT !.cm = registered], g1, made)
        ELSE [st |-> [em |-> createEntity(st.em, signature), cm |-> filled.cm],
              g |-> g1, thrown |-> filled.thrown]

has_thrown(st, g, entity, T) == get_thrown(st.em.signatures, entity)

get_thrown_in(st, g, entity, T) ==
    Then(getComponentArray_thrown(st.cm, g.id[T]), get_thrown(get(st.cm, g.id[T]), entity))

remove_thrown(st, g, entity, T) ==
    Then(setSignature_thrown(st.em, entity, getSignature(st.em, entity) \ {g.id[T]}),
    Then(getComponentArray_thrown(st.cm, g.id[T]),
         erase_thrown(get(st.cm, g.id[T]), entity)))

emplace_thrown_in(st, g, entity, T) ==
    Then(getComponentArray_thrown(st.cm, g.id[T]),
    Then(emplace_thrown(get(st.cm, g.id[T]), entity),
         setSignature_thrown(st.em, entity, getSignature(st.em, entity) \cup {g.id[T]})))

\* merge, first inner loop: the other store's array is fetched for every array missing here
RECURSIVE mergeRegister_thrown(_, _, _, _, _)
mergeRegister_thrown(cm, otherCm, signature, id, nextID) ==
    IF id >= nextID THEN "ok"
    ELSE Then(IF id \in signature /\ ~contains(cm, id) THEN get_thrown(otherCm, id) ELSE "ok",
              mergeRegister_thrown(cm, otherCm, signature, id + 1, nextID))

\* the private create(signature): "unregistered component", then addEntity's
\* "Component array already has the entity"
RECURSIVE addToArrays_thrown(_, _, _, _, _)
addToArrays_thrown(cm, signature, entity, id, nextID) ==
    IF id >= nextID THEN "ok"
    ELSE Then(IF id \in signature
              THEN Then(getComponentArray_thrown(cm, id), emplace_thrown(get(cm, id), entity))
              ELSE "ok",
              addToArrays_thrown(cm, signature, entity, id + 1, nextID))

create_signature_thrown(st, g, signature) ==
    Then(createEntity_thrown(st.em, signature),
         addToArrays_thrown(st.cm, signature, frontEntity(st.em), 0, g.nextID))

\* merge, innermost loop: both arrays are fetched, copyEntityFrom asserts that they hold
\* the two entities
RECURSIVE mergeCopy_thrown(_, _, _, _, _, _, _)
mergeCopy_thrown(cm, otherCm, signature, entity, other_entity, id, nextID) ==
    IF id >= nextID THEN "ok"
    ELSE Then(IF id \in signature
              THEN Then(get_thrown(cm, id),
                   Then(get_thrown(otherCm, id),
                   Then(get_thrown(get(cm, id), entity),
                        get_thrown(get(otherCm, id), other_entity))))
              ELSE "ok",
              mergeCopy_thrown(cm, otherCm, signature, entity, other_entity, id + 1, nextID))

RECURSIVE mergeEntities_thrown(_, _, _, _, _, _)
mergeEntities_thrown(st, other, g, signature, entities, i) ==
    IF i > Len(entities) THEN "ok"
    ELSE LET entity == frontEntity(st.em)
             made == create_signature(st, g, signature)
         IN  Then(create_signature_thrown(st, g, signature),
             Then(mergeCopy_thrown(made.cm, other.cm, signature, entity, entities[i], 0, g.nextID),
                  mergeEntities_thrown(
                      [made EXCEPT !.cm = mergeCopy(@, other.cm, signature, entity, entities[i],
                                                    0, g.nextID)],
                      other, g, signature, entities, i + 1)))

RECURSIVE registry_merge_thrown(_, _, _, _, _)
registry_merge_thrown(st, other, g, order, n) ==
    IF n > Len(order) THEN "ok"
    ELSE LET signature == order[n]
             registered == [st EXCEPT !.cm = mergeRegister(@, other.cm, signature, 0, g.nextID)]
             entities == other.em.entityGroups[signature].dense
         IN  Then(mergeRegister_thrown(st.cm, other.cm, signature, 0, g.nextID),
             Then(mergeEntities_thrown(registered, other, g, signature, entities, 1),
                  registry_merge_thrown(
                      mergeEntities(registered, other, g, signature, entities, 1),
                      other, g, order, n + 1)))

\* component_manager::operator= under the copy constructor: one emplace per array of other
RECURSIVE component_manager_assign_thrown(_, _, _)
component_manager_assign_thrown(cm, other, i) ==
    IF i > Len(other.dense) THEN "ok"
    ELSE Then(emplace_thrown(cm, other.denseToSparse[i]),
              component_manager_assign_thrown(
                  emplace(cm, other.denseToSparse[i], clone(other.dense[i])), other, i + 1))

\* a call that passed the facade's own tests, with what its container calls ran into
Reaching(c, reached) == IF c.thrown = "ok" THEN [c EXCEPT !.thrown = reached] ELSE c

\* the effect of a call c on store r
Call(r, c) ==
    /\ reg' = [reg EXCEPT ![r] = c.st]
    /\ ids' = c.g
    /\ outcome' = c.thrown
    /\ lastMerge' = <<>>

\* create<Ts...>(values...); the entity exists once createEntity has run, also when
\* the fold after it fails and the caller never receives the id
FCreate(r, Ts, values) ==
    /\ reg[r].em.livingEntitiesCount < MaxLive
    /\ ids.nextID < MAX_COMPONENTS
    /\ Call(r, create_call(reg[r], ids, Ts, values))
    /\ created' = IF create_call(reg[r], ids, Ts, values).thrown \in {"ok", "DuplicateKey"}
                  THEN [created EXCEPT ![r] = @ \cup {frontEntity(reg[r].em)}]
                  ELSE created

FHas(r, entity, T) ==
    /\ ids.nextID < MAX_COMPONENTS
    /\ Call(r, Reaching(has_call(reg[r], ids, entity, T), has_thrown(reg[r], ids, entity, T)))
    /\ UNCHANGED created

FGet(r, entity, T, value) ==
    /\ ids.nextID < MAX_COMPONENTS
    /\ LET h == has_call(reg[r], ids, entity, T)
       IN  Call(r, Reaching(get_call(reg[r], ids, entity, T, value),
                            Then(has_thrown(reg[r], ids, entity, T),
                                 get_thrown_in(h.st, h.g, entity, T))))
    /\ UNCHANGED created

FRemove(r, entity, T) ==
    /\ ids.nextID < MAX_COMPONENTS
    /\ LET h == has_call(reg[r], ids, entity, T)
       IN  Call(r, Reaching(remove_call(reg[r], ids, entity, T),
                            Then(has_thrown(reg[r], ids, entity, T),
                                 remove_thrown(h.st, h.g, entity, T))))
    /\ UNCHANGED created

FEmplace(r, entity, T, value) ==
    /\ ids.nextID < MAX_COMPONENTS
    /\ LET h == has_call(reg[r], ids, entity, T)
       IN  Call(r, Reaching(emplace_call(reg[r], ids, entity, T, value),
                            Then(has_thrown(reg[r], ids, entity, T),
                                 emplace_thrown_in(h.st, h.g, entity, T))))
    /\ UNCHANGED created

FDestroy(r, entity) ==
    /\ Call(r, Reaching(destroy_call(reg[r], ids, entity), destroyEntity_thrown(reg[r].em, entity)))
    /\ created' = IF valid(reg[r].em, entity) THEN [created EXCEPT ![r] = @ \ {entity}]
                  ELSE created

FSize(r, entity) ==
    /\ Call(r, Reaching(size_call(reg[r], ids, entity), get_thrown(reg[r].em.signatures, entity)))
    /\ UNCHANGED created

FSame(r, first, second) ==
    /\ Call(r, Reaching(same_call(reg[r], ids, first, second),
                        Then(get_thrown(reg[r].em.signatures, first),
                             get_thrown(reg[r].em.signatures, second))))
    /\ UNCHANGED created

\* view<Ts...>() and viewAny<Ts...>(): the ids of the types are taken, no array is
\* touched and none is registered
FView(r, Ts) ==
    /\ ids.nextID < MAX_COMPONENTS
    /\ ids' = getComponentIDs(ids, Ts)
    /\ outcome' = "ok"
    /\ lastMerge' = <<>>
    /\ UNCHANGED <<reg, created>>

FMerge(r, other, g, order) ==
    /\ ids' = g
    /\ reg' = [reg EXCEPT ![r] = registry_merge(@, other, g, order, 1)]
    /\ created' = [created EXCEPT ![r] =
                       @ \cup {returned(reg[r].em, mergeCount(other, order))[i] :
                                   i \in 1..mergeCount(other, order)}]
    /\ outcome' = registry_merge_thrown(reg[r], other, g, order, 1)
    /\ lastMerge' = <<>>

FCopy(r, o) ==
    /\ Copy(r, o)
    /\ outcome' = component_manager_assign_thrown(sparse_set, reg[o].cm, 1)

\* one registry taking every call with an entity argument, valid or not
NextFacade ==
    \/ \E Ts \in TypeLists : \E values \in [1..Len(Ts) -> Values] :
           CreateWith("A", Ts, values) /\ outcome' = "ok" /\ UNCHANGED <<ssVars, emVars, auxVars, dropped>>
    \/ \E Ts \in TypeLists :
           CreateDefault("A", Ts) /\ outcome' = "ok" /\ UNCHANGED <<ssVars, emVars, auxVars, dropped>>
    \/ \E e \in Entities, T \in Types : FHas("A", e, T) /\ UNCHANGED <<ssVars, emVars, auxVars, dropped>>
    \/ \E e \in Entities, T \in Types, v \in Values :
           FGet("A", e, T, v) /\ UNCHANGED <<ssVars, emVars, auxVars, dropped>>
    \/ \E e \in Entities, T \in Types : FRemove("A", e, T) /\ UNCHANGED <<ssVars, emVars, auxVars, dropped>>
    \/ \E e \in Entities, T \in Types, v \in Values :
           FEmplace("A", e, T, v) /\ UNCHANGED <<ssVars, emVars, auxVars, dropped>>
    \/ \E e \in Entities : FDestroy("A", e) /\ UNCHANGED <<ssVars, emVars, auxVars, dropped>>
    \/ \E e \in Entities : FSize("A", e) /\ UNCHANGED <<ssVars, emVars, auxVars, dropped>>
    \/ \E e1, e2 \in Entities : FSame("A", e1, e2) /\ UNCHANGED <<ssVars, emVars, auxVars, dropped>>

\* the create calls with default-constructed components that fill a registry merged in
DefaultArgs == {a \in CreateArgs : \A i \in 1..Len(a.Ts) : a.values[i] = 0}

\* one registry taking every public call, with entity arguments valid or not and with
\* any pack of component types; components are default-constructed, their values
\* play no part in the tests of the containers
NextPublic ==
    \/ \E Ts \in TypePacks :
           FCreate("A", Ts, [i \in 1..Len(Ts) |-> 0]) /\ UNCHANGED <<ssVars, emVars, auxVars, dropped>>
    \/ \E e \in Entities, T \in Types : FHas("A", e, T) /\ UNCHANGED <<ssVars, emVars, auxVars, dropped>>
    \/ \E e \in Entities, T \in Types :
           FGet("A", e, T, 0) /\ UNCHANGED <<ssVars, emVars, auxVars, dropped>>
    \/ \E e \in Entities, T \in Types : FRemove("A", e, T) /\ UNCHANGED <<ssVars, emVars, auxVars, dropped>>
    \/ \E e \in Entities, T \in Types :
           FEmplace("A", e, T, 0) /\ UNCHANGED <<ssVars, emVars, auxVars, dropped>>
    \/ \E e \in Entities : FDestroy("A", e) /\ UNCHANGED <<ssVars, emVars, auxVars, dropped>>
    \/ \E Ts \in TypePacks : FView("A", Ts) /\ UNCHANGED <<ssVars, emVars, auxVars, dropped>>
    \/ \E n \in 0..MaxSource : \E src \in [1..n -> DefaultArgs] :
           /\ reg["A"].em.livingEntitiesCount + n <= MaxLive
           /\ LET other == build(registry, ids, src)
              IN  \E order \in Orders(DOMAIN other.st.em.entityGroups) :
                      FMerge("A", other.st, other.g, order)
           /\ UNCHANGED <<ssVars, emVars, auxVars, dropped>>
    \/ FCopy("A", "A") /\ UNCHANGED <<ssVars, emVars, auxVars, dropped>>

\* ---- the arguments of create(values...) ----
\* create(Components_t &&...components) takes forwarding references: an argument is an
\* lvalue (a named object of the caller) or a prvalue (a temporary)
Categories == {"lvalue", "prvalue"}

Arguments == [T : Types, value : Values, category : Categories]

\* the argument lists of one call, every type given once
ArgPacks ==
    UNION {{args \in [1..n -> Arguments] : \A i, j \in 1..n : args[i].T = args[j].T => i = j} :
               n \in 1..MaxPack}

\* template argument deduction: Components_t is T& for an lvalue of type T, T otherwise
deduced(arg) == IF arg.category = "lvalue" THEN <<arg.T, "&">> ELSE <<arg.T>>

\* component_array<component_t> is a sparse_set<component_t>, whose elements are kept
\* in a std::vector<component_t>: component_t cannot be a reference type
well_formed(component_t) == Len(component_t) = 1

\* the state of an object that was moved from
moved_from == -1

\* std::forward<Components_t>(components): an lvalue is copied and stays as it is, a
\* temporary is moved from
forward(arg) ==
    [value |-> arg.value,
     source |-> IF arg.category = "lvalue" THEN arg.value ELSE moved_from]

\* create(values...) with the types deduced from the arguments; sources are the
\* caller's argument objects after the call. A call whose instantiation is ill-formed
\* is not part of any program: nothing runs.
create_values(st, g, args) ==
    IF \E i \in 1..Len(args) : ~well_formed(deduced(args[i]))
    THEN [st |-> st, g |-> g, thrown |-> "ill-formed",
          sources |-> [i \in 1..Len(args) |-> args[i].value]]
    ELSE LET c == create_call(st, g, [i \in 1..Len(args) |-> args[i].T],
                              [i \in 1..Len(args) |-> forward(args[i]).value])
         IN  [st |-> c.st, g |-> c.g, thrown |-> c.thrown,
              sources |-> [i \in 1..Len(args) |-> forward(args[i]).source]]

FCreateValues(r, args) ==
    /\ reg[r].em.livingEntitiesCount < MaxLive
    /\ ids.nextID < MAX_COMPONENTS
    /\ Call(r, create_values(reg[r], ids, args))
    /\ created' = IF create_values(reg[r], ids, args).thrown = "ok"
                  THEN [created EXCEPT ![r] = @ \cup {frontEntity(reg[r].em)}]
                  ELSE created

\* one registry whose entities are created, with components given as arguments or
\* default-constructed, and destroyed
NextCreate ==
    \/ \E args \in ArgPacks : FCreateValues("A", args) /\ UNCHANGED <<ssVars, emVars, auxVars, dropped>>
    \/ \E Ts \in TypeLists :
           FCreate("A", Ts, [i \in 1..Len(Ts) |-> 0]) /\ UNCHANGED <<ssVars, emVars, auxVars, dropped>>
    \/ \E e \in Entities : FDestroy("A", e) /\ UNCHANGED <<ssVars, emVars, auxVars, dropped>>

\* ---- registry second = reg: store B is copy-constructed from store A ----
\* history kept next to an operation on store r once the copy exists: the ids the copy
\* created and destroyed, the numbers of its create and destroy calls, and the number
\* of other calls on either store
Since(r, made, destroyed, other) ==
    sinceCopy' = IF sinceCopy = <<>> THEN sinceCopy
                 ELSE <<[sinceCopy[1] EXCEPT !.made = @ \cup made,
                                             !.creates = @ + Cardinality(made),
                                             !.gone = @ \cup destroyed,
                                             !.destroys = @ + Cardinality(destroyed),
                                             !.others = @ + other]>>

\* before the copy store A is filled by create calls; the copy then takes a bounded
\* number of component-less create calls and of destroy calls, and the two stores a
\* bounded number of other calls
MayCreate(r) == r = "B" /\ sinceCopy # <<>> /\ sinceCopy[1].creates < MaxMade

MayDestroy(r) == r = "B" /\ sinceCopy # <<>> /\ sinceCopy[1].destroys < MaxGone

MayCall(r) == sinceCopy # <<>> /\ sinceCopy[1].others < MaxOthers

CopyConstruct ==
    /\ sinceCopy = <<>>
    /\ Copy("B", "A")
    /\ sinceCopy' = <<[live |-> Live(reg["A"]), size |-> size(reg["A"]),
                       made |-> {}, creates |-> 0, gone |-> {}, destroys |-> 0, others |-> 0]>>

\* a registry and a copy of it, both used after the copy was taken
NextCopy ==
    \/ CopyConstruct /\ UNCHANGED <<ssVars, emVars, notCopyVars, dropped, outcome>>
    \/ \E Ts \in TypeLists : \E values \in [1..Len(Ts) -> Values] :
           /\ sinceCopy = <<>>
           /\ CreateWith("A", Ts, values)
           /\ UNCHANGED <<ssVars, emVars, auxVars, dropped, outcome>>
    \/ /\ sinceCopy = <<>>
       /\ CreateDefault("A", <<>>)
       /\ UNCHANGED <<ssVars, emVars, auxVars, dropped, outcome>>
    \/ /\ MayCreate("B")
       /\ CreateDefault("B", <<>>)
       /\ Since("B", {frontEntity(reg["B"].em)}, {}, 0)
       /\ UNCHANGED <<ssVars, emVars, notCopyVars, dropped, outcome>>
    \/ \E e \in Entities :
           /\ MayDestroy("B")
           /\ Destroy("B", e)
           /\ Since("B", {}, {e}, 0)
           /\ UNCHANGED <<ssVars, emVars, notCopyVars, dropped, outcome>>
    \/ \E r \in Stores, Ts \in TypeLists : \E values \in [1..Len(Ts) -> Values] :
           /\ MayCall(r)
           /\ CreateWith(r, Ts, values)
           /\ Since(r, IF r = "B" THEN {frontEntity(reg[r].em)} ELSE {}, {}, 1)
           /\ UNCHANGED <<ssVars, emVars, notCopyVars, dropped, outcome>>
    \/ \E r \in Stores, e \in Entities, T \in Types, v \in Values :
           /\ MayCall(r)
           /\ Emplace(r, e, T, v)
           /\ Since(r, {}, {}, 1)
           /\ UNCHANGED <<ssVars, emVars, notCopyVars, dropped, outcome>>
    \/ \E r \in Stores, e \in Entities, T \in Types :
           /\ MayCall(r)
           /\ Remove(r, e, T)
           /\ Since(r, {}, {}, 1)
           /\ UNCHANGED <<ssVars, emVars, notCopyVars, dropped, outcome>>
    \/ \E r \in Stores, e \in Entities, T \in Types, v \in Values :
           /\ MayCall(r)
           /\ GetAssign(r, e, T, v)
           /\ Since(r, {}, {}, 1)
           /\ UNCHANGED <<ssVars, emVars, notCopyVars, dropped, outcome>>
    \/ \E e \in Entities :
           /\ MayCall("A")
           /\ Destroy("A", e)
           /\ Since("A", {}, {}, 1)
           /\ UNCHANGED <<ssVars, emVars, notCopyVars, dropped, outcome>>

\* ---- registry result = a.merged(b) ----
\* a.merged(b) on two stores; merged is const and takes other by const reference
Merged(a, b) ==
    /\ lastCall = <<>>
    /\ \E order \in Orders(DOMAIN reg[a].em.entityGroups) :
       \E otherOrder \in Orders(DOMAIN reg[b].em.entityGroups) :
           lastCall' = <<[op |-> "merged", this |-> reg[a], other |-> reg[b],
                          result |-> registry_merged(reg[a], reg[b], ids, order, otherOrder)]>>
    /\ UNCHANGED <<reg, ids, created, lastMerge>>

\* store A filled by create and thinned by destroy, store B holding at most MaxSource
\* entities with default-constructed components; a run ends with merged
NextMerged ==
    \/ \E Ts \in SourceLists : \E values \in [1..Len(Ts) -> Values] :
           /\ lastCall = <<>>
           /\ CreateWith("A", Ts, values)
           /\ UNCHANGED <<ssVars, emVars, auxVars, dropped, outcome>>
    \/ \E Ts \in SourceLists :
           /\ lastCall = <<>>
           /\ reg["B"].em.livingEntitiesCount < MaxSource
           /\ CreateDefault("B", Ts)
           /\ UNCHANGED <<ssVars, emVars, auxVars, dropped, outcome>>
    \/ \E e \in Entities :
           /\ lastCall = <<>>
           /\ dropped["A"] = {}
           /\ Destroy("A", e)
           /\ dropped' = [dropped EXCEPT !["A"] = {e}]
           /\ UNCHANGED <<ssVars, emVars, auxVars, outcome>>
    \/ \E b \in Stores :
           Merged("A", b) /\ UNCHANGED <<ssVars, emVars, notCallVars, dropped, outcome>>

\* ---- r.merge(list, other) ----
\* the lists a caller takes from a view of other: entities valid in other, each once
SubsetLists(other) ==
    {list \in UNION {[1..n -> Live(other)] : n \in 0..MaxMerged} :
        \A j, k \in 1..Len(list) : list[j] = list[k] => j = k}

\* r.merge(list, other): other is a registry distinct from r, g the component ids it was built under
MergeSubset(r, other, g, list) ==
    /\ lastCall = <<>>
    /\ ids' = g
    /\ reg' = [reg EXCEPT ![r] = registry_merge_subset(@, other, g, list, 1)]
    /\ created' = [created EXCEPT ![r] =
                       @ \cup {returned(reg[r].em, Len(list))[i] : i \in 1..Len(list)}]
    /\ lastMerge' = <<>>
    /\ lastCall' = <<[op |-> "merge", r |-> r, before |-> reg[r], other |-> other, list |-> list]>>

\* a registry filled by create (default-constructed components) and thinned by one
\* destroy (recorded in dropped); a run ends with the merge of a list of entities of
\* another registry, which may hold one entity more than the registry can take
NextSubset ==
    \/ \E Ts \in SourceLists :
           /\ lastCall = <<>>
           /\ CreateDefault("A", Ts)
           /\ UNCHANGED <<ssVars, emVars, auxVars, dropped, outcome>>
    \/ \E e \in Entities :
           /\ lastCall = <<>>
           /\ dropped["A"] = {}
           /\ Destroy("A", e)
           /\ dropped' = [dropped EXCEPT !["A"] = {e}]
           /\ UNCHANGED <<ssVars, emVars, auxVars, outcome>>
    \/ \E n \in 0..MaxMerged : \E src \in [1..n -> CreateArgs] :
           /\ reg["A"].em.livingEntitiesCount + n <= MaxLive + 1
           /\ LET other == build(registry, ids, src)
              IN  \E list \in SubsetLists(other.st) :
                      /\ reg["A"].em.livingEntitiesCount + Len(list) <= MaxLive
                      /\ MergeSubset("A", other.st, other.g, list)
           /\ UNCHANGED <<ssVars, emVars, notCallVars, dropped, outcome>>

\* ---- r.clear() ----
Clear(r) ==
    /\ lastCall = <<>>
    /\ \E order \in Orders(DOMAIN reg[r].em.entityGroups) :
           /\ reg' = [reg EXCEPT ![r] = registry_clear(@, order)]
           /\ lastCall' = <<[op |-> "clear", r |-> r, before |-> reg[r]]>>
    /\ created' = [created EXCEPT ![r] = {}]
    /\ lastMerge' = <<>>
    /\ UNCHANGED ids

\* a registry that takes create, emplace, remove and destroy calls; a run ends with clear
NextClear ==
    \/ \E Ts \in TypeLists : \E values \in [1..Len(Ts) -> Values] :
           /\ lastCall = <<>>
           /\ CreateWith("A", Ts, values)
           /\ UNCHANGED <<ssVars, emVars, auxVars, dropped, outcome>>
    \/ /\ lastCall = <<>>
       /\ CreateDefault("A", <<>>)
       /\ UNCHANGED <<ssVars, emVars, auxVars, dropped, outcome>>
    \/ \E e \in Entities, T \in Types, v \in Values :
           /\ lastCall = <<>>
           /\ Emplace("A", e, T, v)
           /\ UNCHANGED <<ssVars, emVars, auxVars, dropped, outcome>>
    \/ \E e \in Entities, T \in Types :
           /\ lastCall = <<>>
           /\ Remove("A", e, T)
           /\ UNCHANGED <<ssVars, emVars, auxVars, dropped, outcome>>
    \/ \E e \in Entities :
           /\ lastCall = <<>>
           /\ Destroy("A", e)
           /\ UNCHANGED <<ssVars, emVars, auxVars, dropped, outcome>>
    \/ Clear("A") /\ UNCHANGED <<ssVars, emVars, notCallVars, dropped, outcome>>

\* ---- component_manager::getComponentID<T>() up to the ceiling ----
\* the component types of a program that has more than MAX_COMPONENTS of them, numbered
\* in the order of their first use
Components == 0..MAX_COMPONENTS

GetComponentID(T) ==
    /\ outcome' = getComponentID_thrown(ids, T)
    /\ ids' = IF outcome' = "ok" THEN getComponentID(ids, T) ELSE ids
    /\ lastCall' = <<[op |-> "getComponentID", T |-> T, known |-> T \in DOMAIN ids.id,
                       returned |-> IF outcome' = "ok" THEN ids'.id[T] ELSE null]>>
    /\ UNCHANGED <<reg, created, lastMerge>>

\* calls for the next type not seen yet, for the first type and for the last type seen
NextCeiling ==
    \/ \E T \in Components :
           /\ T = Cardinality(DOMAIN ids.id)
           /\ GetComponentID(T)
           /\ UNCHANGED <<ssVars, emVars, notCallVars, dropped>>
    \/ \E T \in {0, Cardinality(DOMAIN ids.id) - 1} :
           /\ T \in DOMAIN ids.id
           /\ GetComponentID(T)
           /\ UNCHANGED <<ssVars, emVars, notCallVars, dropped>>

\* ---- component_manager::getComponentID<T>() called by two threads ----
Threads == 1..2

\* thread t calls getComponentID<T>()
TCall(t, T) ==
    /\ threads.proc[t].pc = "idle"
    /\ threads' = [threads EXCEPT !.proc[t] = [pc |-> "assert", T |-> T, tmp |-> 0, result |-> null]]
    /\ UNCHANGED ids

\* ECS_ASSERT(m_nextID < MAX_COMPONENTS): an unsynchronised read of the counter
TAssert(t) ==
    /\ threads.proc[t].pc = "assert"
    /\ ids.nextID < MAX_COMPONENTS
    /\ threads' = [threads EXCEPT !.proc[t].pc = "static"]
    /\ UNCHANGED ids

\* "static const component_id id": the guard of the static of this instantiation lets one
\* thread initialise it, makes a thread that comes meanwhile wait, and is passed once
\* the static is initialised
TStatic(t) ==
    /\ threads.proc[t].pc = "static"
    /\ threads.guard[threads.proc[t].T] # "running"
    /\ threads' = IF threads.guard[threads.proc[t].T] = "uninitialised"
                  THEN [threads EXCEPT !.guard[threads.proc[t].T] = "running", !.proc[t].pc = "read"]
                  ELSE [threads EXCEPT !.proc[t].pc = "return"]
    /\ UNCHANGED ids

\* m_nextID++, first half: the counter is read; it is not atomic and no lock is held
\* that a thread initialising the static of another type would need
TRead(t) ==
    /\ threads.proc[t].pc = "read"
    /\ threads' = [threads EXCEPT !.proc[t].tmp = ids.nextID, !.proc[t].pc = "write"]
    /\ UNCHANGED ids

\* m_nextID++, second half: the value read plus one is stored, the value read becomes
\* the id of the type, and the guard is released
TWrite(t) ==
    /\ threads.proc[t].pc = "write"
    /\ ids' = [nextID |-> threads.proc[t].tmp + 1,
               id |-> (threads.proc[t].T :> threads.proc[t].tmp) @@ ids.id]
    /\ threads' = [threads EXCEPT !.guard[threads.proc[t].T] = "initialised", !.proc[t].pc = "return"]

\* return id
TReturn(t) ==
    /\ threads.proc[t].pc = "return"
    /\ threads' = [threads EXCEPT !.proc[t].pc = "idle", !.proc[t].result = ids.id[threads.proc[t].T]]
    /\ UNCHANGED ids

NextThreads ==
    \/ \E t \in Threads, T \in Types : TCall(t, T) /\ UNCHANGED <<ssVars, emVars, notThreadVars, reg, created, lastMerge, dropped, outcome>>
    \/ \E t \in Threads : TAssert(t) /\ UNCHANGED <<ssVars, emVars, notThreadVars, reg, created, lastMerge, dropped, outcome>>
    \/ \E t \in Threads : TStatic(t) /\ UNCHANGED <<ssVars, emVars, notThreadVars, reg, created, lastMerge, dropped, outcome>>
    \/ \E t \in Threads : TRead(t) /\ UNCHANGED <<ssVars, emVars, notThreadVars, reg, created, lastMerge, dropped, outcome>>
    \/ \E t \in Threads : TWrite(t) /\ UNCHANGED <<ssVars, emVars, notThreadVars, reg, created, lastMerge, dropped, outcome>>
    \/ \E t \in Threads : TReturn(t) /\ UNCHANGED <<ssVars, emVars, notThreadVars, reg, created, lastMerge, dropped, outcome>>

\* a registry filled by create and thinned by destroy, into which larger registries are merged
NextMerge ==
    \/ \E Ts \in TypeLists : CreateDefault("A", Ts) /\ UNCHANGED <<ssVars, emVars, auxVars, dropped, outcome>>
    \/ \E Ts \in TypeLists : \E values \in [1..Len(Ts) -> Values] :
           CreateWith("A", Ts, values) /\ UNCHANGED <<ssVars, emVars, auxVars, dropped, outcome>>
    \/ \E e \in Entities : Destroy("A", e) /\ UNCHANGED <<ssVars, emVars, auxVars, dropped, outcome>>
    \/ \E n \in 0..MaxMerged : \E src \in [1..n -> CreateArgs] :
           /\ reg["A"].em.livingEntitiesCount + n <= MaxLive
           /\ LET other == build(registry, ids, src)
              IN  \E order \in Orders(DOMAIN other.st.em.entityGroups) :
                      Merge("A", other.st, other.g, order)
           /\ UNCHANGED <<ssVars, emVars, auxVars, dropped, outcome>>

\* ------------------------------------------- stand-alone entity_manager: actions
Signatures == SUBSET (0..MaxBit)

EMInit == mgr = entity_manager(NumEntities) /\ mgrCreated = {} /\ mgrUsed = {}

EMCreateEntity(signature) ==
    /\ mgr.livingEntitiesCount < MaxLive
    /\ mgr' = createEntity(mgr, signature)
    /\ mgrCreated' = mgrCreated \cup {frontEntity(mgr)}
    /\ mgrUsed' = mgrUsed \cup {frontEntity(mgr)}

\* ECS_ASSERT(valid(entity)) stops the call for any other id
EMDestroyEntity(entity) ==
    /\ valid(mgr, entity)
    /\ mgr' = destroyEntity(mgr, entity)
    /\ mgrCreated' = mgrCreated \ {entity}
    /\ UNCHANGED mgrUsed

EMSetSignature(entity, signature) ==
    /\ valid(mgr, entity)
    /\ mgr' = setSignature(mgr, entity, signature)
    /\ UNCHANGED <<mgrCreated, mgrUsed>>

EMNext ==
    \/ \E signature \in Signatures : EMCreateEntity(signature) /\ UNCHANGED <<ssVars, regVars, auxVars>>
    \/ \E e \in Entities : EMDestroyEntity(e) /\ UNCHANGED <<ssVars, regVars, auxVars>>
    \/ \E e \in Entities, signature \in Signatures :
           EMSetSignature(e, signature) /\ UNCHANGED <<ssVars, regVars, auxVars>>

\* ---- entity_manager(numEntities) for any pre-allocation count ----
\* the largest pre-allocation count tried
MaxPrealloc == 2

EMInitAny ==
    \E numEntities \in 0..MaxPrealloc : mgr = entity_manager(numEntities) /\ mgrCreated = {} /\ mgrUsed = {}

\* createEntity on any entity manager: m_availableEntityIDs.front() of an empty queue
\* is undefined; the call does not return, or goes on with any value as the id
EMCreateEntityAny(signature) ==
    /\ lastCall = <<>>
    /\ IF mgr.availableEntityIDs = <<>>
       THEN /\ \E entity \in Entities \cup {null} :
                   lastCall' = <<[op |-> "createEntity", queue |-> "empty", front |-> entity]>>
            /\ UNCHANGED <<mgr, mgrCreated, mgrUsed>>
       ELSE /\ EMCreateEntity(signature)
            /\ UNCHANGED lastCall

EMNextAny ==
    \/ \E signature \in Signatures :
           EMCreateEntityAny(signature) /\ UNCHANGED <<ssVars, regVars, notCallVars>>
    \/ \E e \in Entities :
           lastCall = <<>> /\ EMDestroyEntity(e) /\ UNCHANGED <<ssVars, regVars, auxVars>>

SSInit0 ==
    /\ ss = sparse_set /\ ssCapacity = 0 /\ ssBound = << >> /\ ssPast = << >> /\ ssOp = <<"new">>
    /\ ssOrder = [order |-> <<>>, erased |-> FALSE]

\* ---- registry::create and registry::destroy, one statement at a time ----
\* mutant: the entity is allocated with an empty signature, to be moved to its group later
create_entity_unsigned(st, signature) ==
    [st EXCEPT !.em = createEntity(@, {})]

\* entity = m_entityManager.createEntity(signature)
create_entity(st, signature) ==
    [st EXCEPT !.em = createEntity(@, signature)]

\* mutant: the first statement of destroy notifies the component arrays
destroy_entityManager_arrays(st, entity) ==
    [st EXCEPT !.cm = entityDestroyed(@, entity)]

\* m_entityManager.destroyEntity(entity)
destroy_entityManager(st, entity) ==
    [st EXCEPT !.em = destroyEntity(@, entity)]

\* m_componentManager.entityDestroyed(entity)
destroy_componentManager(st, entity) ==
    [st EXCEPT !.cm = entityDestroyed(@, entity)]

\* create: the arrays of Ts are registered and the signature is computed from their ids
CreateSignature(r, Ts, values) ==
    /\ lastCall = <<>>
    /\ reg[r].em.livingEntitiesCount < MaxLive
    /\ ids.nextID < MAX_COMPONENTS
    /\ ids' = getComponentIDs(ids, Ts)
    /\ reg' = [reg EXCEPT ![r].cm = registerComponents(@, ids', Ts)]
    /\ lastCall' = <<[op |-> "create", pc |-> "createEntity", r |-> r, Ts |-> Ts,
                      values |-> values, signature |-> make_signature(ids', Ts),
                      entity |-> null, before |-> reg[r]]>>
    /\ UNCHANGED <<created, lastMerge>>

\* create: the entity is allocated with that signature
CreateEntity ==
    /\ lastCall # <<>>
    /\ lastCall[1].pc = "createEntity"
    /\ LET c == lastCall[1]
       IN  /\ reg' = [reg EXCEPT ![c.r] = create_entity(@, c.signature)]
           /\ created' = [created EXCEPT ![c.r] = @ \cup {frontEntity(reg[c.r].em)}]
           /\ lastCall' = <<[c EXCEPT !.pc = "emplace", !.entity = frontEntity(reg[c.r].em)]>>
    /\ lastMerge' = <<>>
    /\ UNCHANGED ids

\* create: the components are stored, and the call returns
CreateEmplace ==
    /\ lastCall # <<>>
    /\ lastCall[1].pc = "emplace"
    /\ LET c == lastCall[1]
       IN  reg' = [reg EXCEPT ![c.r].cm = emplaceComponents(@, ids, c.Ts, c.entity, c.values)]
    /\ lastCall' = <<>>
    /\ UNCHANGED <<ids, created, lastMerge>>

\* destroy on a valid entity: the entity manager is told first
DestroyEntityManager(r, entity) ==
    /\ lastCall = <<>>
    /\ valid(reg[r].em, entity)
    /\ reg' = [reg EXCEPT ![r] = destroy_entityManager(@, entity)]
    /\ created' = [created EXCEPT ![r] = @ \ {entity}]
    /\ lastCall' = <<[op |-> "destroy", pc |-> "entityDestroyed", r |-> r,
                      entity |-> entity, before |-> reg[r]]>>
    /\ lastMerge' = <<>>
    /\ UNCHANGED ids

\* destroy: the component arrays are notified, and the call returns
DestroyComponentManager ==
    /\ lastCall # <<>>
    /\ lastCall[1].pc = "entityDestroyed"
    /\ LET c == lastCall[1]
       IN  reg' = [reg EXCEPT ![c.r] = destroy_componentManager(@, c.entity)]
    /\ lastCall' = <<>>
    /\ UNCHANGED <<ids, created, lastMerge>>

\* a registry whose create and destroy calls are seen statement by statement
NextSteps ==
    \/ \E Ts \in SourceLists : \E values \in [1..Len(Ts) -> Values] :
           /\ CreateSignature("A", Ts, values)
           /\ UNCHANGED <<ssVars, emVars, notCallVars, dropped, outcome>>
    \/ CreateEntity /\ UNCHANGED <<ssVars, emVars, notCallVars, dropped, outcome>>
    \/ CreateEmplace /\ UNCHANGED <<ssVars, emVars, notCallVars, dropped, outcome>>
    \/ \E e \in Entities :
           /\ DestroyEntityManager("A", e)
           /\ UNCHANGED <<ssVars, emVars, notCallVars, dropped, outcome>>
    \/ DestroyComponentManager /\ UNCHANGED <<ssVars, emVars, notCallVars, dropped, outcome>>

\* ---- component_manager::registerComponent<T>() on a store in use ----
RegisterComponent(r, T) ==
    /\ ids.nextID < MAX_COMPONENTS
    /\ ids' = getComponentID(ids, T)
    /\ reg' = [reg EXCEPT ![r].cm = registerComponent(@, ids'.id[T])]
    /\ lastCall' = <<[op |-> "registerComponent", r |-> r, T |-> T, before |-> reg[r], g |-> ids]>>
    /\ UNCHANGED <<created, lastMerge>>

\* a registry that takes create, destroy and registerComponent calls
NextRegister ==
    \/ \E Ts \in SourceLists : \E values \in [1..Len(Ts) -> Values] :
           /\ CreateDefault("A", Ts) \/ CreateWith("A", Ts, values)
           /\ lastCall' = <<>>
           /\ UNCHANGED <<ssVars, emVars, notCallVars, dropped, outcome>>
    \/ \E e \in Entities :
           /\ Destroy("A", e)
           /\ lastCall' = <<>>
           /\ UNCHANGED <<ssVars, emVars, notCallVars, dropped, outcome>>
    \/ \E T \in Types :
           /\ RegisterComponent("A", T)
           /\ UNCHANGED <<ssVars, emVars, notCallVars, dropped, outcome>>

\* ---- one registry; a run ends with an emplace, remove or destroy that is recorded ----
NextFrame ==
    \/ \E Ts \in SourceLists : \E values \in [1..Len(Ts) -> Values] :
           /\ lastCall = <<>>
           /\ CreateWith("A", Ts, values) \/ CreateDefault("A", Ts)
           /\ UNCHANGED <<ssVars, emVars, auxVars, dropped, outcome>>
    \/ \E e \in Entities, T \in Types, v \in Values :
           /\ lastCall = <<>>
           /\ Emplace("A", e, T, v)
           /\ lastCall' \in {<<>>, <<[op |-> "emplace", entity |-> e, T |-> T, value |-> v,
                                      before |-> reg["A"]]>>}
           /\ UNCHANGED <<ssVars, emVars, notCallVars, dropped, outcome>>
    \/ \E e \in Entities, T \in Types :
           /\ lastCall = <<>>
           /\ Remove("A", e, T)
           /\ lastCall' \in {<<>>, <<[op |-> "remove", entity |-> e, T |-> T, value |-> 0,
                                      before |-> reg["A"]]>>}
           /\ UNCHANGED <<ssVars, emVars, notCallVars, dropped, outcome>>
    \/ \E e \in Entities :
           /\ lastCall = <<>>
           /\ Destroy("A", e)
           /\ lastCall' \in {<<>>, <<[op |-> "destroy", entity |-> e, before |-> reg["A"]]>>}
           /\ UNCHANGED <<ssVars, emVars, notCallVars, dropped, outcome>>

\* ---- r = o: the implicit copy assignment of registry, member by member ----
registry_assign(st, other) ==
    [em |-> other.em, cm |-> component_manager_assign_raised(st.cm, other.cm, 1)]

Assign(r, o) ==
    /\ lastCall = <<>>
    /\ reg' = [reg EXCEPT ![r] = registry_assign(@, reg[o])]
    /\ created' = [created EXCEPT ![r] = created[o]]
    /\ lastCall' = <<[op |-> "assign", r |-> r, before |-> reg[r], other |-> reg[o],
                      thrown |-> component_manager_assign_thrown(reg[r].cm, reg[o].cm, 1)]>>
    /\ lastMerge' = <<>>
    /\ UNCHANGED ids

\* two registries filled by create calls; a run ends with A = B
NextAssign ==
    \/ \E Ts \in SourceLists :
           /\ lastCall = <<>>
           /\ CreateDefault("A", Ts)
           /\ UNCHANGED <<ssVars, emVars, auxVars, dropped, outcome>>
    \/ \E Ts \in SourceLists : \E values \in [1..Len(Ts) -> Values] :
           /\ lastCall = <<>>
           /\ size(reg["B"]) < MaxSource
           /\ CreateWith("B", Ts, values)
           /\ UNCHANGED <<ssVars, emVars, auxVars, dropped, outcome>>
    \/ Assign("A", "B") /\ UNCHANGED <<ssVars, emVars, notCallVars, dropped, outcome>>

Init == RegInit /\ EMInit /\ SSInit0

Spec == Init /\ [][Next]_vars

SpecMerge == Init /\ [][NextMerge]_vars

SpecDestroy == Init /\ [][NextDestroy]_vars

SpecCopy == Init /\ [][NextCopy]_vars

SpecMerged == Init /\ [][NextMerged]_vars

SpecSubset == Init /\ [][NextSubset]_vars

SpecClear == Init /\ [][NextClear]_vars

SpecCeiling == Init /\ [][NextCeiling]_vars

SpecThreads == Init /\ [][NextThreads]_vars

SpecCreate == Init /\ [][NextCreate]_vars

SpecPublic == Init /\ [][NextPublic]_vars

SpecFacade == Init /\ [][NextFacade]_vars

SpecEntityManager == Init /\ [][EMNext]_vars

InitAny == RegInit /\ EMInitAny /\ SSInit0

SpecPrealloc == InitAny /\ [][EMNextAny]_vars

\* -------------------------------------------- stand-alone sparse set: actions

SSEmplace(k, v) ==
    /\ ss' = emplace(ss, k, v)
    /\ ssBound' = IF contains(ss, k) THEN ssBound ELSE (k :> v) @@ ssBound
    /\ ssOp' = <<"emplace", k, ~contains(ss, k)>>
    /\ ssOrder' = IF ~contains(ss, k) /\ ~ssOrder.erased
                  THEN [ssOrder EXCEPT !.order = Append(@, <<k, v>>)]
                  ELSE ssOrder
    /\ UNCHANGED <<ssCapacity, ssPast>>

\* ssOp keeps the dense index erase(k) vacated and the number of elements before it
SSErase(k) ==
    /\ ss' = erase(ss, k)
    /\ ssBound' = [x \in DOMAIN ssBound \ {k} |-> ssBound[x]]
    /\ ssPast' = IF k \in DOMAIN ssBound THEN (k :> ssBound[k]) @@ ssPast ELSE ssPast
    /\ ssOp' = IF contains(ss, k)
               THEN <<"erase", k, TRUE, getDenseIndex(ss, k), Len(ss.dense)>>
               ELSE <<"erase", k, FALSE>>
    /\ ssOrder' = IF ~contains(ss, k) THEN ssOrder
                  ELSE [order |-> <<>>, erased |-> ~empty(ss')]
    /\ UNCHANGED ssCapacity

SSClear ==
    /\ ss' = clear(ss)
    /\ ssBound' = << >>
    /\ ssPast' = [k \in DOMAIN ssBound \cup DOMAIN ssPast |->
                     IF k \in DOMAIN ssBound THEN ssBound[k] ELSE ssPast[k]]
    /\ ssOp' = <<"clear">>
    /\ ssOrder' = [order |-> <<>>, erased |-> FALSE]
    /\ UNCHANGED ssCapacity

\* reserve(n): the vectors' capacity becomes at least n; contents are untouched
SSReserve(n) ==
    /\ ssCapacity' = IF n > ssCapacity THEN n ELSE ssCapacity
    /\ ssOp' = <<"reserve", n>>
    /\ UNCHANGED <<ss, ssBound, ssPast, ssOrder>>

SSShrinkToFit ==
    /\ ss' = shrink_to_fit(ss)
    /\ ssCapacity' = Len(ss.dense)
    /\ ssOp' = <<"shrink_to_fit">>
    /\ UNCHANGED <<ssBound, ssPast, ssOrder>>

\* s[k]; ssOp keeps whether k was bound before the call and how the call ended
SSSubscript(k) ==
    /\ ss' = subscript(ss, k)
    /\ ssOp' = <<"operator[]", k, contains(ss, k), subscript_thrown(ss, k)>>
    /\ UNCHANGED <<ssCapacity, ssBound, ssPast, ssOrder>>

SSNext ==
    \/ \E k \in Keys, v \in Values : SSEmplace(k, v) /\ UNCHANGED <<regVars, emVars, auxVars>>
    \/ \E k \in Keys : SSErase(k) /\ UNCHANGED <<regVars, emVars, auxVars>>
    \/ SSClear /\ UNCHANGED <<regVars, emVars, auxVars>>
    \/ \E n \in 0..MaxReserve : SSReserve(n) /\ UNCHANGED <<regVars, emVars, auxVars>>
    \/ SSShrinkToFit /\ UNCHANGED <<regVars, emVars, auxVars>>
    \/ \E k \in Keys : SSSubscript(k) /\ UNCHANGED <<regVars, emVars, auxVars>>

SpecSteps == Init /\ [][NextSteps]_vars

SpecRegister == Init /\ [][NextRegister]_vars

SpecFrame == Init /\ [][NextFrame]_vars

SpecAssign == Init /\ [][NextAssign]_vars

SpecSparseSet == Init /\ [][SSNext]_vars

\* ================================================================== claims

\* the dense elements of vector v, 0-based as in the code
at(v, i) == v[i + 1]

\* C4: at every point of a run of emplace / erase / clear, contains(k) is true exactly
\* for the keys emplaced and not erased since, and get(k) is the value last bound to k
\* (also for a key beyond the sparse vector, and for a key bound again after an erase).
C4_RoundTrip ==
    \A k \in 0..(MaxKey + 1) :
        /\ contains(ss, k) <=> k \in DOMAIN ssBound
        /\ k \in DOMAIN ssBound => get(ss, k) = ssBound[k]

\* C4 witness: a key that was erased is bound again, to another value, next to another key
C4_Witness ==
    \E k \in DOMAIN ssBound \cap DOMAIN ssPast :
        /\ ssPast[k] # ssBound[k]
        /\ get(ss, k) = ssBound[k]
        /\ Cardinality(DOMAIN ssBound) >= 2

\* C5: the dense vector and denseToSparse have equal length; sparse[denseToSparse[i]] = i
\* for every dense index i; every non-null sparse entry is an in-bounds dense index that
\* denseToSparse maps back to its key; contains(k) iff k is inside the sparse vector and
\* its entry is not null.
C5_IndexConsistency ==
    /\ Len(ss.dense) = Len(ss.denseToSparse)
    /\ \A i \in 0..(Len(ss.denseToSparse) - 1) :
           /\ at(ss.denseToSparse, i) < Len(ss.sparse)
           /\ at(ss.sparse, at(ss.denseToSparse, i)) = i
    /\ \A k \in 0..(Len(ss.sparse) - 1) :
           at(ss.sparse, k) # null =>
               /\ at(ss.sparse, k) \in 0..(Len(ss.dense) - 1)
               /\ at(ss.denseToSparse, at(ss.sparse, k)) = k
    /\ \A k \in 0..(MaxKey + 1) :
           contains(ss, k) <=> (k < Len(ss.sparse) /\ at(ss.sparse, k) # null)

\* C5 witness: after a swapping erase and a shrink_to_fit the set still holds two keys,
\* out of key order, below an unbound sparse entry
C5_Witness ==
    /\ ssOp = <<"shrink_to_fit">>
    /\ Len(ss.dense) = 2
    /\ at(ss.denseToSparse, 0) > at(ss.denseToSparse, 1)
    /\ \E k \in 0..(Len(ss.sparse) - 1) : at(ss.sparse, k) = null
    /\ ssPast # << >>

\* C6: a successful erase(k) on N elements leaves N - 1; when k was not in the last dense
\* slot the last element (value and key) is moved into k's slot and is retrievable under
\* its own key; every other element keeps its dense position and value; when k was last
\* the remaining order is unchanged.
C6_SwapRemoveStep ==
    \A k \in Keys :
        (ssOp' = <<"erase", k, TRUE, getDenseIndex(ss, k), Len(ss.dense)>> /\ contains(ss, k)) =>
            LET N == Len(ss.dense)
                slot == getDenseIndex(ss, k)
                lastKey == at(ss.denseToSparse, N - 1)
            IN  /\ Len(ss'.dense) = N - 1
                /\ Len(ss'.denseToSparse) = N - 1
                /\ ~contains(ss', k)
                /\ slot # N - 1 =>
                       /\ at(ss'.dense, slot) = at(ss.dense, N - 1)
                       /\ at(ss'.denseToSparse, slot) = lastKey
                       /\ contains(ss', lastKey)
                       /\ get(ss', lastKey) = get(ss, lastKey)
                /\ \A i \in 0..(N - 2) :
                       i # slot => /\ at(ss'.dense, i) = at(ss.dense, i)
                                   /\ at(ss'.denseToSparse, i) = at(ss.denseToSparse, i)

C6_SwapRemove == [][C6_SwapRemoveStep]_vars

\* C6 witness: an erase has just vacated a slot that was not the last of three, and the
\* element moved into it has a value different from its neighbour's
C6_Witness ==
    /\ Len(ssOp) = 5
    /\ ssOp[1] = "erase"
    /\ ssOp[5] = 3
    /\ ssOp[4] = 0
    /\ Len(ss.dense) = 2
    /\ at(ss.dense, 0) # at(ss.dense, 1)

\* the stores of the current state: the registries, and the registry just merged from
StoresNow == {reg[r] : r \in Stores} \cup {lastMerge[i].other : i \in 1..Len(lastMerge)}

\* entity is bound in the component array of component id i
bound(st, i, entity) == contains(st.cm, i) /\ contains(get(st.cm, i), entity)

\* the ids an entity argument can take: 0, the allocated range, and beyond it
Ids(st) == 0..(st.em.nextID + 1)

Once(seq, x) == Cardinality({i \in 1..Len(seq) : seq[i] = x}) = 1

\* C2: every live entity is in exactly one group, listed there once, and that group's key
\* is its signature; no id that is not live is in any group; no group is empty.
C2_GroupInvariant ==
    /\ \A e \in 0..(mgr.nextID + 1) :
           IF valid(mgr, e)
           THEN /\ getSignature(mgr, e) \in DOMAIN mgr.entityGroups
                /\ \A signature \in DOMAIN mgr.entityGroups :
                       IF signature = getSignature(mgr, e)
                       THEN /\ contains(mgr.entityGroups[signature], e)
                            /\ Once(mgr.entityGroups[signature].dense, e)
                            /\ Once(mgr.entityGroups[signature].denseToSparse, e)
                       ELSE /\ ~contains(mgr.entityGroups[signature], e)
                            /\ \A i \in 1..Len(mgr.entityGroups[signature].dense) :
                                   mgr.entityGroups[signature].dense[i] # e
           ELSE \A signature \in DOMAIN mgr.entityGroups :
                    /\ ~contains(mgr.entityGroups[signature], e)
                    /\ \A i \in 1..Len(mgr.entityGroups[signature].dense) :
                           mgr.entityGroups[signature].dense[i] # e
    /\ \A signature \in DOMAIN mgr.entityGroups : ~empty(mgr.entityGroups[signature])

\* C2 witness: two live entities in two groups, one of them not in the group of the empty
\* signature, while an id that was live before is in no group
C2_Witness ==
    /\ Cardinality(DOMAIN mgr.entityGroups) = 2
    /\ mgr.livingEntitiesCount = 2
    /\ \E e \in 1..(mgr.nextID - 1) :
           ~valid(mgr, e) /\ e < Len(mgr.signatures.sparse) /\ e \notin mgrCreated

\* the elements of a sequence
Range(seq) == {seq[i] : i \in 1..Len(seq)}

\* C3: view(required, excluded) lists exactly the live entities whose signature contains
\* every required bit and no excluded bit, each once, whatever order the groups come in.
C3_ViewCorrect ==
    \A r \in Stores : \A required, excluded \in SUBSET (0..ids.nextID) :
        \A order \in Orders(DOMAIN reg[r].em.entityGroups) :
            LET v == view(reg[r].em, required, excluded, order)
            IN  /\ Range(v) = {e \in created[r] :
                                  /\ required \subseteq getSignature(reg[r].em, e)
                                  /\ excluded \cap getSignature(reg[r].em, e) = {}}
                /\ \A e \in Range(v) : Once(v, e)

\* C3 witness: as after remove<Velocity>(e2): e2 lacks the second component, so it is in
\* view<P>() and in view<P>(exclude<V>) but not in view<P,V>(), which holds e1 only
C3_Witness ==
    \E e1, e2 \in Live(reg["A"]) : \E p, v \in 0..(ids.nextID - 1) :
        \E order \in Orders(DOMAIN reg["A"].em.entityGroups) :
            /\ p # v
            /\ view(reg["A"].em, {p, v}, {}, order) = <<e1>>
            /\ view(reg["A"].em, {p}, {v}, order) = <<e2>>
            /\ Range(view(reg["A"].em, {p}, {}, order)) = {e1, e2}
            /\ e2 < Len(get(reg["A"].cm, v).sparse)

\* C7: valid(e) is true exactly for the ids returned by a create and not destroyed since
\* (so never for 0, for an id still waiting in the free queue, or for an id >= nextID) ...
C7_ValidIffCreated ==
    \A r \in Stores : \A e \in Ids(reg[r]) : valid(reg[r].em, e) <=> e \in created[r]

\* ... and right after a component-less create() the new entity is valid with size(e) = 0
C7_CreateStep ==
    CreateDefault("A", <<>>) =>
        /\ valid(reg'["A"].em, frontEntity(reg["A"].em))
        /\ Cardinality(getSignature(reg'["A"].em, frontEntity(reg["A"].em))) = 0

C8_Step ==
    \A r \in Stores :
        LET n == reg'[r].em.livingEntitiesCount - reg[r].em.livingEntitiesCount
            new == created'[r] \ created[r]
        IN  n > 0 => /\ Cardinality(new) = n
                     /\ 0 \notin new
                     /\ new \cap Live(reg[r]) = {}
                     /\ new \subseteq Live(reg'[r])

C8_UniqueIds == [][C8_Step]_vars

\* C8 witness: a merge has just created an entity under a recycled id (smaller than the
\* id of an entity that was live before the merge and still is)
C8_Witness ==
    /\ lastMerge # <<>>
    /\ \E e \in Live(reg["A"]) \ Live(lastMerge[1].before) :
           \E e2 \in Live(lastMerge[1].before) : e < e2 /\ valid(reg["A"].em, e2)

\* no component array of the store holds the entity
NoComponents(st, entity) == \A i \in 1..Len(st.cm.dense) : ~contains(st.cm.dense[i], entity)

\* C9: no component array holds an id that is not live, and an id last destroyed while
\* carrying components and given none since (by emplace, or by a create or merge that
\* returned it with components) holds no component and, once live again, has an empty
\* signature and has<T> false for every T ...
C9_NoStaleComponent ==
    \A r \in Stores :
        /\ \A e \in Ids(reg[r]) : ~valid(reg[r].em, e) => NoComponents(reg[r], e)
        /\ \A e \in dropped[r] :
               /\ NoComponents(reg[r], e)
               /\ valid(reg[r].em, e) =>
                      /\ getSignature(reg[r].em, e) = {}
                      /\ \A T \in Types : ~has(reg[r], getComponentID(ids, T), e, T)

\* ... in particular destroy(e) leaves e in no array, and a component-less create() gives
\* an entity with an empty signature and no component
C9_Step ==
    /\ \A e \in Entities : Destroy("A", e) => NoComponents(reg'["A"], e)
    /\ CreateDefault("A", <<>>) =>
           /\ getSignature(reg'["A"].em, frontEntity(reg["A"].em)) = {}
           /\ NoComponents(reg'["A"], frontEntity(reg["A"].em))

C9_DestroyRemovesAll == []C9_NoStaleComponent /\ [][C9_Step]_vars

\* C9 witness: an id destroyed while carrying a component of each of two arrays is live
\* again, returned by a component-less create, while another entity holds a component
C9_Witness ==
    \E e \in dropped["A"] : \E i \in 1..Len(reg["A"].cm.dense) :
        /\ valid(reg["A"].em, e)
        /\ Len(reg["A"].cm.dense) = 2
        /\ \A j \in 1..2 : e = Len(reg["A"].cm.dense[j].sparse) - 1
        /\ ~empty(reg["A"].cm.dense[i])

\* the component of id i of an entity
component(st, i, entity) == get(get(st.cm, i), entity)

\* C10: right after r.merge(other) the entities of other correspond one to one to the
\* entities the merge created in r, with equal signatures and equal component values.
C10_MergePreservesContent ==
    \A n \in 1..Len(lastMerge) :
        LET after == reg[lastMerge[n].r]
            other == lastMerge[n].other
            new == Live(after) \ Live(lastMerge[n].before)
        IN  \E f \in [Live(other) -> new] :
                /\ \A e1, e2 \in Live(other) : f[e1] = f[e2] => e1 = e2
                /\ {f[e] : e \in Live(other)} = new
                /\ \A e \in Live(other) :
                       /\ getSignature(after.em, f[e]) = getSignature(other.em, e)
                       /\ \A i \in getSignature(other.em, e) :
                              /\ bound(after, i, f[e])
                              /\ component(after, i, f[e]) = component(other, i, e)

\* C10 witness: two entities of equal signature and different values were merged into a
\* store that had no array for their component type
C10_Witness ==
    /\ lastMerge # <<>>
    /\ \E e1, e2 \in Live(lastMerge[1].other) : \E i \in getSignature(lastMerge[1].other.em, e1) :
           /\ e1 # e2
           /\ getSignature(lastMerge[1].other.em, e1) = getSignature(lastMerge[1].other.em, e2)
           /\ component(lastMerge[1].other, i, e1) # component(lastMerge[1].other, i, e2)
           /\ ~contains(lastMerge[1].before.cm, i)
           /\ Cardinality(getSignature(lastMerge[1].other.em, e1)) = 2

\* C11: right after r.merge(other), size(r) is its size before plus size(other), and every
\* entity that was live in r before is still live under its id with the same signature
\* and the same component values.
C11_MergeSize ==
    \A n \in 1..Len(lastMerge) :
        LET after == reg[lastMerge[n].r]
            before == lastMerge[n].before
            other == lastMerge[n].other
        IN  /\ after.em.livingEntitiesCount
                   = before.em.livingEntitiesCount + other.em.livingEntitiesCount
            /\ Cardinality(Live(after)) = Cardinality(Live(before)) + Cardinality(Live(other))
            /\ \A e \in Live(before) :
                   /\ valid(after.em, e)
                   /\ getSignature(after.em, e) = getSignature(before.em, e)
                   /\ \A i \in getSignature(before.em, e) :
                          bound(after, i, e) /\ component(after, i, e) = component(before, i, e)

\* C11 witness: the store held an entity with a non-default component, and the merged
\* registry held an entity with a component of the same type and another value
C11_Witness ==
    /\ lastMerge # <<>>
    /\ \E e \in Live(lastMerge[1].before) : \E o \in Live(lastMerge[1].other) :
           \E i \in getSignature(lastMerge[1].before.em, e) :
               /\ i \in getSignature(lastMerge[1].other.em, o)
               /\ component(lastMerge[1].before, i, e) = 1
               /\ component(lastMerge[1].other, i, o) = 0

\* the entities of the merged registry in the order merge visits them: the groups in the
\* recorded order, each group in dense order
mergeSources(m) == view(m.other.em, {}, {}, m.order)

\* the entities merge created for them, in the same order
mergeTargets(m) == returned(m.before.em, Len(mergeSources(m)))

\* C12 as stated: the entity created for an entity of other has an id that differs from
\* the id of that entity in other.
C12_IdsDiffer ==
    \A n \in 1..Len(lastMerge) : \A k \in 1..Len(mergeSources(lastMerge[n])) :
        mergeTargets(lastMerge[n])[k] # mergeSources(lastMerge[n])[k]

\* C12 amended: the entity created for an entity of other carries the source's signature
\* under an id taken from r's own free queue: non-zero and not live in r before the
\* merge; nothing relates it to the source's id in other, which it may equal.
C12_IdsFromOwnQueue ==
    \A n \in 1..Len(lastMerge) : \A k \in 1..Len(mergeSources(lastMerge[n])) :
        LET m == lastMerge[n]
            e == mergeTargets(m)[k]
        IN  /\ e # 0
            /\ ~valid(m.before.em, e)
            /\ e \in Range(m.before.em.availableEntityIDs) \/ e >= m.before.em.nextID
            /\ valid(reg[m.r].em, e)
            /\ getSignature(reg[m.r].em, e) = getSignature(m.other.em, mergeSources(m)[k])

\* C12 witness: merged into a store that holds a live entity, an entity of other got the
\* id it has in other
C12_Witness ==
    /\ lastMerge # <<>>
    /\ Live(lastMerge[1].before) # {}
    /\ \E k \in 1..Len(mergeSources(lastMerge[1])) :
           /\ mergeTargets(lastMerge[1])[k] = mergeSources(lastMerge[1])[k]
           /\ getSignature(lastMerge[1].other.em, mergeSources(lastMerge[1])[k]) # {}

\* what a call with an invalid entity must return: InvalidEntity, nothing changed
Refused(r) == Throw(reg[r], ids, "InvalidEntity")

\* C13: in every reachable state, has, get, remove, emplace, destroy, size/empty and same
\* called with an entity that is not valid (0, never allocated, or destroyed) throw
\* InvalidEntity whatever the component type and its presence, and change nothing: not
\* the registry (live set, signatures, arrays and their values), not the component ids.
C13_InvalidEntity ==
    \A e \in Entities : ~valid(reg["A"].em, e) =>
        /\ destroy_call(reg["A"], ids, e) = Refused("A")
        /\ size_call(reg["A"], ids, e) = Refused("A")
        /\ \A e2 \in Entities :
               /\ same_call(reg["A"], ids, e, e2) = Refused("A")
               /\ same_call(reg["A"], ids, e2, e) = Refused("A")
        /\ \A T \in Types :
               /\ has_call(reg["A"], ids, e, T) = Refused("A")
               /\ remove_call(reg["A"], ids, e, T) = Refused("A")
               /\ \A v \in Values :
                      /\ get_call(reg["A"], ids, e, T, v) = Refused("A")
                      /\ emplace_call(reg["A"], ids, e, T, v) = Refused("A")

\* C13 witness: a call has thrown InvalidEntity in a store that holds a destroyed id next
\* to a live entity with a component, before every component type was registered
C13_Witness ==
    /\ outcome = "InvalidEntity"
    /\ \E e \in 1..(reg["A"].em.nextID - 1) :
           ~valid(reg["A"].em, e) /\ e < Len(reg["A"].em.signatures.sparse)
    /\ \E e \in Live(reg["A"]) : getSignature(reg["A"].em, e) # {}
    /\ ids.nextID = 1

\* two stores hold the same components: the same entities are bound in the same arrays
\* with equal values (an array registered and empty counts for nothing)
SameComponents(st1, st2) ==
    \A i \in 0..ids.nextID : \A e \in Entities :
        /\ bound(st1, i, e) <=> bound(st2, i, e)
        /\ bound(st1, i, e) => component(st1, i, e) = component(st2, i, e)

\* the call c threw ComponentNotFound and left the entity manager (signatures, groups,
\* live set) and every component as in store r
NotFound(r, c) ==
    /\ c.thrown = "ComponentNotFound"
    /\ c.st.em = reg[r].em
    /\ SameComponents(c.st, reg[r])

\* C14: in every reachable state, get<T>(e) and remove<T>(e) on a valid e without T throw
\* ComponentNotFound and leave signatures, groups and all component values unchanged;
\* and a remove<T>(e) that succeeds is followed by a remove<T>(e) that throws.
C14_ComponentNotFound ==
    \A e \in Live(reg["A"]) : \A T \in Types :
        IF getComponentID(ids, T).id[T] \in getSignature(reg["A"].em, e)
        THEN /\ remove_call(reg["A"], ids, e, T).thrown = "ok"
             /\ remove_call(remove_call(reg["A"], ids, e, T).st, ids, e, T).thrown
                    = "ComponentNotFound"
        ELSE /\ NotFound("A", remove_call(reg["A"], ids, e, T))
             /\ \A v \in Values : NotFound("A", get_call(reg["A"], ids, e, T, v))

\* C14 witness: a call has thrown ComponentNotFound in a store where an entity has lost
\* a component that another entity still holds with a non-default value
C14_Witness ==
    /\ outcome = "ComponentNotFound"
    /\ \E e1, e2 \in Live(reg["A"]) : \E i \in 0..(ids.nextID - 1) :
           /\ ~bound(reg["A"], i, e1) /\ contains(reg["A"].cm, i)
           /\ e1 = Len(get(reg["A"].cm, i).sparse) - 1
           /\ bound(reg["A"], i, e2) /\ component(reg["A"], i, e2) = 1
           /\ e1 > e2

\* C15: in every reachable state, emplace<T>(e, v) on a valid e that has T throws
\* DuplicateComponent and changes nothing: the stored value, the signature, the array.
C15_DuplicateComponent ==
    \A e \in Live(reg["A"]) : \A T \in DOMAIN ids.id :
        ids.id[T] \in getSignature(reg["A"].em, e) =>
            \A v \in Values :
                emplace_call(reg["A"], ids, e, T, v) = Throw(reg["A"], ids, "DuplicateComponent")

\* C15 witness: a call has thrown DuplicateComponent in a store where an entity holds
\* two components, one of them with a non-default value
C15_Witness ==
    /\ outcome = "DuplicateComponent"
    /\ \E e \in Live(reg["A"]) :
           /\ Cardinality(getSignature(reg["A"].em, e)) = 2
           /\ \E i \in getSignature(reg["A"].em, e) : component(reg["A"], i, e) = 1

\* C16: in every reachable state of a sparse set, emplace on a key bound by the history
\* raises DuplicateKey, erase and get on a key not bound by it (never bound, erased, or
\* beyond the sparse vector) raise KeyNotFound, and the failing emplace and erase leave
\* the three vectors as they were; the other calls raise nothing.
C16_KeyErrors ==
    \A k \in Keys :
        IF k \in DOMAIN ssBound
        THEN /\ emplace_thrown(ss, k) = "DuplicateKey"
             /\ \A v \in Values : emplace(ss, k, v) = ss
             /\ erase_thrown(ss, k) = "ok" /\ get_thrown(ss, k) = "ok"
        ELSE /\ erase_thrown(ss, k) = "KeyNotFound" /\ erase(ss, k) = ss
             /\ get_thrown(ss, k) = "KeyNotFound"
             /\ emplace_thrown(ss, k) = "ok"

\* C16 witness: erase has just failed on a key erased before, while another key is bound
\* and a third lies beyond the sparse vector
C16_Witness ==
    /\ Len(ssOp) = 3 /\ ssOp[1] = "erase" /\ ssOp[3] = FALSE
    /\ ssOp[2] \in DOMAIN ssPast
    /\ \E k \in DOMAIN ssBound : k > ssOp[2]
    /\ \E k \in Keys : k >= Len(ss.sparse)

\* ---- C17 ----
\* the checks inside the containers: the key tests of sparse_set and the assertions
\* on the registered component arrays
ContainerErrors == {"DuplicateKey", "KeyNotFound", "NotRegistered"}

\* the exceptions the registry throws after its own tests
FacadeErrors == {"InvalidEntity", "ComponentNotFound", "DuplicateComponent"}

\* C17: whatever public calls a registry has taken (create with any pack of component
\* types, emplace, remove, get, has, destroy, view, merge, copy construction, with valid
\* and invalid entities), the last call either returned or threw one of the registry's
\* three exceptions: no key test of a sparse set failed and no assertion on an
\* unregistered component array was reached.
C17_FacadePreChecks == outcome \in {"ok"} \cup FacadeErrors

\* C17, for the calls the registry can take next: create with a pack of distinct types
\* reaches no container check, and neither does emplace, remove, get, destroy or the
\* copy constructor; the only container check ever met is the key test of emplace
C17_DistinctPacks ==
    /\ \A Ts \in TypeLists :
           ids.nextID < MAX_COMPONENTS =>
               create_call(reg["A"], ids, Ts, [i \in 1..Len(Ts) |-> 0]).thrown = "ok"
    /\ \A e \in Entities, T \in Types :
           ids.nextID < MAX_COMPONENTS =>
               LET h == has_call(reg["A"], ids, e, T)
               IN  /\ emplace_call(reg["A"], ids, e, T, 0).thrown = "ok" =>
                       emplace_thrown_in(h.st, h.g, e, T) = "ok"
                   /\ remove_call(reg["A"], ids, e, T).thrown = "ok" =>
                       remove_thrown(h.st, h.g, e, T) = "ok"
                   /\ get_call(reg["A"], ids, e, T, 0).thrown = "ok" =>
                       get_thrown_in(h.st, h.g, e, T) = "ok"
    /\ \A e \in Entities :
           destroy_call(reg["A"], ids, e).thrown = "ok" => destroyEntity_thrown(reg["A"].em, e) = "ok"
    /\ component_manager_assign_thrown(sparse_set, reg["A"].cm, 1) = "ok"
    /\ outcome \in ContainerErrors => outcome = "DuplicateKey"

\* a pack that names a type twice meets the key test of sparse_set::emplace: the
\* second emplace of the fold finds the new entity already in the array
C17_Witness ==
    /\ outcome = "DuplicateKey"
    /\ \E e \in Live(reg["A"]) : getSignature(reg["A"].em, e) # {}

\* ---- C18 ----
\* C18: view_any_of(mayHave, excluded) lists exactly the live entities whose signature
\* shares a bit with mayHave and none with excluded, each once, whatever order the
\* groups come in; an entity with an empty signature is never listed.
C18_ViewAnyCorrect ==
    \A r \in Stores : \A mayHave, excluded \in SUBSET (0..ids.nextID) :
        \A order \in Orders(DOMAIN reg[r].em.entityGroups) :
            LET v == view_any_of(reg[r].em, mayHave, excluded, order)
            IN  /\ Range(v) = {e \in created[r] :
                                  /\ mayHave \cap getSignature(reg[r].em, e) # {}
                                  /\ excluded \cap getSignature(reg[r].em, e) = {}}
                /\ \A e \in Range(v) : Once(v, e) /\ getSignature(reg[r].em, e) # {}

\* C18 witness: e1 carries one of the two types asked for, e2 carries nothing:
\* viewAny<P, V>() is e1 alone, and excluding P leaves nothing
C18_Witness ==
    \E e1, e2 \in Live(reg["A"]) : \E p, v \in 0..(ids.nextID - 1) :
        \E order \in Orders(DOMAIN reg["A"].em.entityGroups) :
            /\ p # v
            /\ getSignature(reg["A"].em, e1) = {p}
            /\ getSignature(reg["A"].em, e2) = {}
            /\ view_any_of(reg["A"].em, {p, v}, {}, order) = <<e1>>
            /\ view_any_of(reg["A"].em, {p, v}, {p}, order) = <<>>

\* ---- C19 ----
\* C19: with empty type lists and nothing excluded, view lists every live entity, each
\* once, entities with an empty signature included, so its length is size(); and
\* view_any_of lists nothing.
C19_EmptyListViews ==
    \A r \in Stores : \A order \in Orders(DOMAIN reg[r].em.entityGroups) :
        LET v == view(reg[r].em, {}, {}, order)
        IN  /\ Range(v) = Live(reg[r])
            /\ Len(v) = size(reg[r])
            /\ \A e \in Range(v) : Once(v, e)
            /\ view_any_of(reg[r].em, {}, {}, order) = <<>>

\* C19 witness: two live entities, one without components and one with a component;
\* view<>() holds both
C19_Witness ==
    \E e1, e2 \in Live(reg["A"]) : \E order \in Orders(DOMAIN reg["A"].em.entityGroups) :
        /\ getSignature(reg["A"].em, e1) = {}
        /\ getSignature(reg["A"].em, e2) # {}
        /\ Range(view(reg["A"].em, {}, {}, order)) = {e1, e2}
        /\ size(reg["A"]) = 2

\* ---- C20 ----
\* what create promises for the arguments args, or for the types Ts without arguments (c
\* is the call on store r, entity the id it hands out)
Created(c, entity, Ts, values) ==
    /\ c.thrown = "ok"
    /\ valid(c.st.em, entity)
    /\ getSignature(c.st.em, entity) = make_signature(c.g, Ts)
    /\ \A i \in 1..Len(Ts) : get(get(c.st.cm, c.g.id[Ts[i]]), entity) = values[i]

CanCreate == reg["A"].em.livingEntitiesCount < MaxLive /\ ids.nextID < MAX_COMPONENTS

\* C20: create(values...) returns a live entity whose signature has exactly the bits of
\* the argument types and whose components are the values given, whether an argument
\* is a temporary or an lvalue of the caller, and an lvalue is left as it was;
\* create<Ts...>() gives the signature of Ts with default-constructed components.
C20_CreateWithComponents ==
    CanCreate =>
        /\ \A args \in ArgPacks :
               LET c == create_values(reg["A"], ids, args)
               IN  /\ Created(c, frontEntity(reg["A"].em), [i \in 1..Len(args) |-> args[i].T],
                              [i \in 1..Len(args) |-> args[i].value])
                   /\ \A i \in 1..Len(args) :
                          args[i].category = "lvalue" => c.sources[i] = args[i].value
        /\ \A Ts \in TypeLists :
               Created(create_call(reg["A"], ids, Ts, [i \in 1..Len(Ts) |-> 0]),
                       frontEntity(reg["A"].em), Ts, [i \in 1..Len(Ts) |-> 0])

\* C20 for temporaries and for create<Ts...>(): this much holds
C20_CreateFromTemporaries ==
    CanCreate =>
        /\ \A args \in ArgPacks :
               (\A i \in 1..Len(args) : args[i].category = "prvalue") =>
                   Created(create_values(reg["A"], ids, args), frontEntity(reg["A"].em),
                           [i \in 1..Len(args) |-> args[i].T],
                           [i \in 1..Len(args) |-> args[i].value])
        /\ \A Ts \in TypeLists :
               Created(create_call(reg["A"], ids, Ts, [i \in 1..Len(Ts) |-> 0]),
                       frontEntity(reg["A"].em), Ts, [i \in 1..Len(Ts) |-> 0])
        /\ \A args \in ArgPacks :
               (\E i \in 1..Len(args) : args[i].category = "lvalue") =>
                   create_values(reg["A"], ids, args).thrown = "ill-formed"

\* a create call with an lvalue argument was attempted on a registry that holds an
\* entity created from temporaries with both components
C20_Witness ==
    /\ outcome = "ill-formed"
    /\ \E e \in Live(reg["A"]) : Cardinality(getSignature(reg["A"].em, e)) = 2

\* ---- C21 ----
\* what a caller can see of a store: its live ids, their signatures and the values of
\* their components
Content(st) ==
    [e \in Live(st) |->
        [signature |-> getSignature(st.em, e),
         components |-> [i \in getSignature(st.em, e) |-> component(st, i, e)]]]

\* C21: the step that copy-constructs B from A gives B the live ids, signatures and
\* component values of A and leaves A as it was; every later step (create, emplace,
\* remove, a write through get, destroy, on either store) changes what can be seen of
\* at most one of the two stores.
C21_CopyIsDeep ==
    [][/\ (sinceCopy = <<>> /\ sinceCopy' # <<>>) =>
              /\ Content(reg'["B"]) = Content(reg["A"])
              /\ Content(reg'["A"]) = Content(reg["A"])
       /\ sinceCopy # <<>> =>
              \/ Content(reg'["A"]) = Content(reg["A"])
              \/ Content(reg'["B"]) = Content(reg["B"])]_vars

\* C21 for every registry the calls of Spec lead to, recycled ids and swapped dense
\* vectors included: its copy shows the same content
C21_CopyContent == \A r \in Stores : Content(registry_copy(reg[r])) = Content(reg[r])

\* C21 witness: after the copy, a component of an entity copied has one value in A and
\* another in B, and B has lost an entity that A still has
C21_Witness ==
    /\ sinceCopy # <<>>
    /\ \E e \in Live(reg["A"]) \cap Live(reg["B"]) :
           \E i \in getSignature(reg["A"].em, e) \cap getSignature(reg["B"].em, e) :
               component(reg["A"], i, e) # component(reg["B"], i, e)
    /\ \E e \in sinceCopy[1].live : e \in Live(reg["A"]) \ Live(reg["B"])

\* ---- C22 ----
\* C22: once B is a copy of A, every id B created since differs from every id that was
\* live in A when the copy was taken, and as long as B destroyed nothing its size is the
\* number of entities copied plus the number it created.
C22_CopyIds ==
    sinceCopy # <<>> =>
        /\ sinceCopy[1].made \cap sinceCopy[1].live = {}
        /\ sinceCopy[1].destroys = 0 => size(reg["B"]) = sinceCopy[1].size + sinceCopy[1].creates

\* C22 as it holds: the copy carries the allocator of the source, so an id B creates is
\* not live in B just before, hence none of the ids copied and not destroyed in B
\* since; the size of B is the number copied plus the number created minus the number
\* destroyed in B; and a create in B leaves A's size and content as they were.
C22_CopyAllocator ==
    [][sinceCopy' # <<>> =>
           /\ size(reg'["B"]) = sinceCopy'[1].size + sinceCopy'[1].creates - sinceCopy'[1].destroys
           /\ (sinceCopy # <<>> /\ sinceCopy'[1].creates > sinceCopy[1].creates) =>
                  /\ \A e \in sinceCopy'[1].made \ sinceCopy[1].made :
                         /\ e \notin Live(reg["B"])
                         /\ e \in Live(reg'["B"])
                         /\ e \notin sinceCopy[1].live \ sinceCopy[1].gone
                  /\ size(reg'["A"]) = size(reg["A"])
                  /\ Content(reg'["A"]) = Content(reg["A"])]_vars

\* C22 witness: B was copied from a store with an entity and has created an entity of
\* its own since, destroying none: it holds the entity copied and the new one, A only
\* the first
C22_Witness ==
    /\ sinceCopy # <<>>
    /\ sinceCopy[1].live # {}
    /\ sinceCopy[1].made # {}
    /\ sinceCopy[1].destroys = 0
    /\ Live(reg["B"]) = sinceCopy[1].live \cup sinceCopy[1].made
    /\ Live(reg["A"]) = sinceCopy[1].live
    /\ size(reg["B"]) = size(reg["A"]) + 1

\* C23: a.merged(b) returns a registry of size(a) + size(b) entities in which the entities
\* of a and the entities of b each have exactly one entity of their own with the same
\* signature and the same component values, and the call leaves a and b as they were.
C23_MergedIsPure ==
    [][(lastCall = <<>> /\ lastCall' # <<>> /\ lastCall'[1].op = "merged") =>
           LET this == lastCall'[1].this
               other == lastCall'[1].other
               result == lastCall'[1].result
           IN  /\ size(result) = size(this) + size(other)
               /\ Cardinality(Live(result)) = size(result)
               /\ \E f \in [Live(this) -> Live(result)] : \E h \in [Live(other) -> Live(result)] :
                      /\ \A e1, e2 \in Live(this) : f[e1] = f[e2] => e1 = e2
                      /\ \A e1, e2 \in Live(other) : h[e1] = h[e2] => e1 = e2
                      /\ {f[e] : e \in Live(this)} \cap {h[e] : e \in Live(other)} = {}
                      /\ {f[e] : e \in Live(this)} \cup {h[e] : e \in Live(other)} = Live(result)
                      /\ \A e \in Live(this) : Content(result)[f[e]] = Content(this)[e]
                      /\ \A e \in Live(other) : Content(result)[h[e]] = Content(other)[e]
               /\ \E a, b \in Stores : reg[a] = this /\ reg[b] = other
               /\ reg' = reg /\ ids' = ids]_vars

\* C23 witness: merged of a store with a hole in its ids and a non-default component and
\* a store holding a component of another type under an id that is live in both
C23_Witness ==
    /\ lastCall # <<>>
    /\ lastCall[1].op = "merged"
    /\ reg["A"] = lastCall[1].this
    /\ reg["B"] = lastCall[1].other
    /\ Live(lastCall[1].this) = {2}
    /\ Live(lastCall[1].other) = {1}
    /\ \E i \in getSignature(lastCall[1].this.em, 2) : component(lastCall[1].this, i, 2) = 1
    /\ getSignature(lastCall[1].other.em, 1) # {}
    /\ getSignature(lastCall[1].other.em, 1) \cap getSignature(lastCall[1].this.em, 2) = {}
    /\ size(lastCall[1].result) = 2

\* C23 witness of the self case: a.merged(a) of a store with two entities in one group
C23_SelfWitness ==
    /\ lastCall # <<>>
    /\ lastCall[1].op = "merged"
    /\ lastCall[1].this = lastCall[1].other
    /\ size(lastCall[1].this) = 2
    /\ size(lastCall[1].result) = 4

\* C24: right after r.merge(list, other), list being entities valid in other, r holds one
\* new entity per listed entity, with that entity's signature and component values, and
\* no other new entity: size(r) has grown by the length of the list.
C24_SubsetMerge ==
    (lastCall # <<>> /\ lastCall[1].op = "merge") =>
        LET after == reg[lastCall[1].r]
            before == lastCall[1].before
            other == lastCall[1].other
            list == lastCall[1].list
            new == Live(after) \ Live(before)
        IN  /\ size(after) = size(before) + Len(list)
            /\ Cardinality(Live(after)) = Cardinality(Live(before)) + Len(list)
            /\ Live(before) \subseteq Live(after)
            /\ \E f \in [1..Len(list) -> new] :
                   /\ \A j, k \in 1..Len(list) : f[j] = f[k] => j = k
                   /\ {f[k] : k \in 1..Len(list)} = new
                   /\ \A k \in 1..Len(list) : Content(after)[f[k]] = Content(other)[list[k]]

\* C24 witness: of two entities of other with components, the second alone was listed
\* and merged into a store that held an entity
C24_Witness ==
    /\ lastCall # <<>>
    /\ lastCall[1].op = "merge"
    /\ size(lastCall[1].other) = 2
    /\ Len(lastCall[1].list) = 1
    /\ lastCall[1].list[1] = 2
    /\ getSignature(lastCall[1].other.em, 2) # getSignature(lastCall[1].other.em, 1)
    /\ getSignature(lastCall[1].other.em, 2) # {}
    /\ size(lastCall[1].before) = 1
    /\ size(reg[lastCall[1].r]) = 2

\* what clear() must leave behind in a store that was before: no live entity, no id of
\* before valid, every view empty, every component array without entities
Cleared(st, was) ==
    /\ size(st) = 0
    /\ \A e \in Live(was) : ~valid(st.em, e)
    /\ Live(st) = {}
    /\ \A order \in Orders(DOMAIN st.em.entityGroups) : \A required, excluded \in SUBSET (0..MaxBit) :
           /\ view(st.em, required, excluded, order) = <<>>
           /\ view_any_of(st.em, required, excluded, order) = <<>>
    /\ \A i \in 0..MaxBit : contains(st.cm, i) =>
           /\ empty(get(st.cm, i))
           /\ \A e \in Live(was) : ~contains(get(st.cm, i), e)

\* C25: right after clear() the store has size 0, every id that was valid before the call
\* is invalid, every view is empty and no component array holds an entity.
C25_Clear ==
    (lastCall # <<>> /\ lastCall[1].op = "clear") => Cleared(reg[lastCall[1].r], lastCall[1].before)

\* C25 for every registry the calls of Spec lead to (merge and copy included)
C25_ClearAnywhere ==
    \A order \in Orders(DOMAIN reg["A"].em.entityGroups) : Cleared(registry_clear(reg["A"], order), reg["A"])

\* C25 witness: clear() emptied a store of two entities in two groups, one of them with
\* two components, under ids that had been recycled
C25_Witness ==
    /\ lastCall # <<>>
    /\ lastCall[1].op = "clear"
    /\ size(lastCall[1].before) = 2
    /\ Cardinality(DOMAIN lastCall[1].before.em.entityGroups) = 2
    /\ \E e \in Live(lastCall[1].before) : Cardinality(getSignature(lastCall[1].before.em, e)) = 2
    /\ 1 \notin Live(lastCall[1].before)
    /\ size(reg["A"]) = 0
    /\ Len(reg["A"].em.availableEntityIDs) > NumEntities

\* C26: a type that has a component id keeps it through every call on any store,
\* registerComponent included; another call of getComponentID for it returns the same
\* id; and two types never have the same id.
C26_StableIds ==
    [][/\ \A T \in DOMAIN ids.id : T \in DOMAIN ids'.id /\ ids'.id[T] = ids.id[T]
       /\ \A T \in Types : getComponentID(getComponentID(ids, T), T) = getComponentID(ids, T)
       /\ \A T \in DOMAIN ids.id : getComponentID(ids, T).id[T] = ids.id[T]
       /\ \A T1, T2 \in DOMAIN ids'.id : ids'.id[T1] = ids'.id[T2] => T1 = T2
       /\ \A T \in DOMAIN ids'.id : ids'.id[T] < ids'.nextID]_vars

\* C26 witness: both types have an id, and each of the two stores holds an entity with
\* a component of either type in the array of that id
C26_Witness ==
    /\ DOMAIN ids.id = Types
    /\ \A r \in Stores : \A T \in Types :
           /\ contains(reg[r].cm, ids.id[T])
           /\ \E e \in Live(reg[r]) : ids.id[T] \in getSignature(reg[r].em, e)
                                       /\ contains(get(reg[r].cm, ids.id[T]), e)

\* C27: getComponentID fails only when a type not seen yet would take an id beyond the
\* MAX_COMPONENTS allowed; every assigned id is below MAX_COMPONENTS; and a call for a
\* type that has an id returns that id without failing, also once MAX_COMPONENTS types
\* have their ids.
C27_Ceiling ==
    /\ \A T \in DOMAIN ids.id : ids.id[T] < MAX_COMPONENTS
    /\ (lastCall # <<>> /\ lastCall[1].op = "getComponentID") =>
           /\ outcome # "ok" => ~lastCall[1].known /\ Cardinality(DOMAIN ids.id) >= MAX_COMPONENTS
           /\ lastCall[1].known => outcome = "ok" /\ lastCall[1].returned = ids.id[lastCall[1].T]

\* what the code keeps of C27: ids stay below MAX_COMPONENTS, a call fails exactly when
\* the counter has reached MAX_COMPONENTS, seen or not seen, and a call that returns
\* returns the id of the type
C27_CounterTest ==
    /\ \A T \in DOMAIN ids.id : ids.id[T] < MAX_COMPONENTS
    /\ ids.nextID <= MAX_COMPONENTS
    /\ (lastCall # <<>> /\ lastCall[1].op = "getComponentID") =>
           /\ outcome # "ok" <=> (ids.nextID = MAX_COMPONENTS /\ lastCall[1].returned = null)
           /\ outcome = "ok" => lastCall[1].returned = ids.id[lastCall[1].T]

\* C27 witness: MAX_COMPONENTS types have their ids and a call for the first of them failed
C27_Witness ==
    /\ lastCall # <<>>
    /\ lastCall[1].op = "getComponentID"
    /\ Cardinality(DOMAIN ids.id) = MAX_COMPONENTS
    /\ lastCall[1].known
    /\ lastCall[1].T = 0
    /\ outcome = "TooManyComponents"

\* C28: whatever the interleaving of two threads that call getComponentID, for the same
\* type or for different types, no two types have the same id, and whenever no
\* initialisation is under way every type seen has its one id and the counter equals the
\* number of types that have an id.
C28_RaceFree ==
    /\ \A T1, T2 \in DOMAIN ids.id : ids.id[T1] = ids.id[T2] => T1 = T2
    /\ (\A t \in Threads : threads.proc[t].pc \notin {"read", "write"}) =>
           /\ ids.nextID = Cardinality(DOMAIN ids.id)
           /\ \A T \in Types : threads.guard[T] = "initialised" <=> T \in DOMAIN ids.id
    /\ \A t \in Threads : threads.proc[t].pc = "idle" /\ threads.proc[t].T # "none" =>
           threads.proc[t].result = ids.id[threads.proc[t].T]

\* the half of C28 the code keeps: the static of one type is initialised by one thread
\* only, so a type never changes its id and both threads are returned the same id for it
C28_OncePerType ==
    [][/\ \A T \in DOMAIN ids.id : T \in DOMAIN ids'.id /\ ids'.id[T] = ids.id[T]
       /\ \A t1, t2 \in Threads :
              (t1 # t2 /\ threads.proc[t1].T = threads.proc[t2].T)
                  => ~(threads.proc[t1].pc \in {"read", "write"} /\ threads.proc[t2].pc \in {"read", "write"})
       /\ \A t \in Threads : threads'.proc[t].pc = "idle" /\ threads'.proc[t].T # "none" =>
              threads'.proc[t].result = ids'.id[threads'.proc[t].T]]_vars

\* C28 witness: both threads made the first use of a type, one of Position and one of
\* Velocity, both have returned, and the two types have the same id
C28_Witness ==
    /\ \A t \in Threads : threads.proc[t].pc = "idle"
    /\ threads.proc[1].T = "Position"
    /\ threads.proc[2].T = "Velocity"
    /\ threads.proc[1].result = 0
    /\ threads.proc[2].result = 0
    /\ ids.nextID = 1

\* the number of entities in the groups of an entity manager
RECURSIVE grouped(_, _)
grouped(groups, S) ==
    IF S = {} THEN 0
    ELSE LET signature == CHOOSE x \in S : TRUE
         IN  Len(groups[signature].dense) + grouped(groups, S \ {signature})

\* the four counts of live entities of an entity manager agree
Counted(em) ==
    /\ em.livingEntitiesCount = Cardinality({e \in 0..(em.nextID + 1) : valid(em, e)})
    /\ em.livingEntitiesCount = Len(em.signatures.dense)
    /\ em.livingEntitiesCount = grouped(em.entityGroups, DOMAIN em.entityGroups)

\* C29: size() is the number of valid ids, the number of signature records and the sum
\* of the sizes of the groups; createEntity adds exactly one to it, destroyEntity takes
\* exactly one from it, and setSignature leaves it.
C29_LiveCount ==
    [][/\ Counted(mgr) /\ Counted(mgr')
       /\ mgrCreated' \ mgrCreated # {} => mgr'.livingEntitiesCount = mgr.livingEntitiesCount + 1
       /\ mgrCreated \ mgrCreated' # {} => mgr'.livingEntitiesCount = mgr.livingEntitiesCount - 1
       /\ mgrCreated' = mgrCreated => mgr'.livingEntitiesCount = mgr.livingEntitiesCount]_vars

\* C29 for the entity managers of the registries, through every registry call of Spec:
\* the counts agree; a call that changes the size is a create (one more), a destroy
\* (one less), or a merge or a copy construction, which are made of them
C29_RegistryCount ==
    [][/\ \A r \in Stores : Counted(reg[r].em) /\ Counted(reg'[r].em)
       /\ \A r \in Stores :
              \/ size(reg'[r]) = size(reg[r])
              \/ size(reg'[r]) = size(reg[r]) + 1 /\ Cardinality(Live(reg'[r]) \ Live(reg[r])) = 1
              \/ size(reg'[r]) = size(reg[r]) - 1 /\ Cardinality(Live(reg[r]) \ Live(reg'[r])) = 1
              \/ lastMerge' # <<>>]_vars

\* C29 witness: after creates, a destroy and a setSignature one entity is left, with a
\* recycled id waiting in the queue
C29_Witness ==
    /\ mgr.livingEntitiesCount = 1
    /\ valid(mgr, 2)
    /\ ~valid(mgr, 1)
    /\ getSignature(mgr, 2) = {0, 1}
    /\ 1 \in Range(mgr.availableEntityIDs)

\* C30: for every pre-allocation count and after any createEntity and destroyEntity
\* calls, more entities live than were pre-allocated included, the queue of free ids is
\* not empty when createEntity reads its front: no call has met an empty queue.
C30_CreateNeverFails ==
    ~(lastCall # <<>> /\ lastCall[1].op = "createEntity" /\ lastCall[1].queue = "empty")

\* what the code keeps of C30: an entity manager that was given at least one id, or has
\* handed out one, refills its queue after every pop and never leaves it empty
C30_Refill ==
    (mgr.nextID > 1) =>
        /\ mgr.availableEntityIDs # <<>>
        /\ lastCall = <<>>
        /\ frontEntity(mgr) # 0
        /\ ~valid(mgr, frontEntity(mgr))

\* C30 witness: createEntity was called on an entity manager constructed with
\* numEntities = 0 and read the front of its empty queue
C30_Witness ==
    /\ lastCall # <<>>
    /\ lastCall[1].op = "createEntity"
    /\ lastCall[1].queue = "empty"
    /\ mgr = entity_manager(0)

\* an entity manager constructed with one id has two live entities and an id to give
C30_BeyondPrealloc ==
    /\ mgr.livingEntitiesCount = 2
    /\ mgr.nextID = 4
    /\ mgr.availableEntityIDs = <<3>>

\* the ids waiting in the queue that createEntity has never returned
neverUsed == Range(mgr.availableEntityIDs) \ mgrUsed

\* the largest id of a set, 0 for the empty set
largest(S) == IF S = {} THEN 0 ELSE CHOOSE x \in S : \A y \in S : y <= x

\* C31 as stated: when the id of a destroyed entity waits in the queue, createEntity
\* returns an id that has been used before; it returns a never-used id only when no
\* destroyed id is available.
C31_ReuseFirst ==
    [][\A e \in mgrCreated' \ mgrCreated :
           (Range(mgr.availableEntityIDs) \cap mgrUsed # {}) => e \in mgrUsed]_vars

\* C31 amended: createEntity returns the front of a first-in first-out queue in which
\* never-used ids stand before the ids of destroyed entities: it returns a never-used id,
\* one more than the largest id used so far, as long as one is queued, and otherwise the
\* id that was destroyed first; destroyEntity puts the id at the back; the counter
\* m_nextID gives the queue a new id exactly when a pop has emptied it, and never falls.
C31_NeverUsedFirst ==
    [][/\ \A i, j \in 1..Len(mgr.availableEntityIDs) :
              (i < j /\ mgr.availableEntityIDs[j] \notin mgrUsed) => mgr.availableEntityIDs[i] \notin mgrUsed
       /\ \A e \in mgrCreated' \ mgrCreated :
              /\ e = Head(mgr.availableEntityIDs)
              /\ neverUsed # {} => e \notin mgrUsed /\ e = largest(mgrUsed) + 1
              /\ neverUsed = {} => e \in mgrUsed
              /\ mgr'.nextID = IF Len(mgr.availableEntityIDs) = 1 THEN mgr.nextID + 1 ELSE mgr.nextID
              /\ mgr'.availableEntityIDs = IF Len(mgr.availableEntityIDs) = 1 THEN <<mgr.nextID>>
                                           ELSE Tail(mgr.availableEntityIDs)
       /\ \A e \in mgrCreated \ mgrCreated' :
              mgr'.availableEntityIDs = Append(mgr.availableEntityIDs, e) /\ mgr'.nextID = mgr.nextID
       /\ mgr'.nextID >= mgr.nextID]_vars

\* C31 witness: entity 1 was created and destroyed, and the next createEntity returned
\* the never-used id 2 while id 1 waited in the queue
C31_Witness ==
    /\ mgrUsed = {1, 2}
    /\ mgrCreated = {2}
    /\ mgr.availableEntityIDs = <<1>>
    /\ mgr.nextID = NumEntities + 1

\* a state in which createEntity does reuse: only ids of destroyed entities are queued
C31_ReuseWitness ==
    /\ mgr.availableEntityIDs = <<1, 2>>
    /\ mgrUsed = {1, 2, 3}
    /\ mgrCreated = {3}

\* C32: s[k] on a key that is not bound (get(k) and erase(k) fail with KeyNotFound) does
\* not fail and leaves k bound, so that erase(k) succeeds after it.
C32_SubscriptBinds ==
    (Len(ssOp) = 4 /\ ssOp[1] = "operator[]" /\ ~ssOp[3]) =>
        /\ ssOp[4] = "ok"
        /\ contains(ss, ssOp[2])
        /\ erase_thrown(ss, ssOp[2]) = "ok"

\* what operator[] does instead: it is get, failing with KeyNotFound on a key that is not
\* bound and changing nothing, bound or not
C32_SubscriptIsGet ==
    [][(Len(ssOp') = 4 /\ ssOp'[1] = "operator[]") =>
           /\ ss' = ss
           /\ ssOp'[4] = get_thrown(ss, ssOp'[2])
           /\ ssOp'[4] = (IF ssOp'[2] \in DOMAIN ssBound THEN "ok" ELSE "KeyNotFound")
           /\ erase_thrown(ss', ssOp'[2]) = ssOp'[4]]_vars

\* C32 witness: s[k] was called on a key that get and erase fail on, in a set with
\* reserved capacity, and failed itself
C32_Witness ==
    /\ Len(ssOp) = 4
    /\ ssOp[1] = "operator[]"
    /\ ssOp[2] = 0
    /\ ~ssOp[3]
    /\ ssOp[4] = "KeyNotFound"
    /\ get_thrown(ss, 0) = "KeyNotFound" /\ erase_thrown(ss, 0) = "KeyNotFound"
    /\ ssCapacity > 0

\* C33: destroy(e) first removes e from every registered component array and only then
\* removes e from the entity manager: while the arrays are being notified e is still a
\* live (valid) entity.
C33_ArraysFirst ==
    (lastCall # <<>> /\ lastCall[1].op = "destroy") =>
        valid(reg[lastCall[1].r].em, lastCall[1].entity)

\* the order the code has: destroyEntity takes e out of the entity manager (group,
\* signature, live count, id queued) and leaves every array as it is; entityDestroyed
\* then runs on an id that is no longer valid, leaves the entity manager as it is and
\* drops e from every array; together the two statements are destroy(e)
C33_TableFirst ==
    [][/\ (lastCall = <<>> /\ lastCall' # <<>> /\ lastCall'[1].op = "destroy") =>
           LET c == lastCall'[1]
           IN  /\ valid(reg[c.r].em, c.entity)
               /\ ~valid(reg'[c.r].em, c.entity)
               /\ reg'[c.r].em = destroyEntity(reg[c.r].em, c.entity)
               /\ reg'[c.r].cm = reg[c.r].cm
       /\ (lastCall # <<>> /\ lastCall[1].op = "destroy") =>
           LET c == lastCall[1]
           IN  /\ ~valid(reg[c.r].em, c.entity)
               /\ reg[c.r].cm = c.before.cm
               /\ reg'[c.r].em = reg[c.r].em
               /\ NoComponents(reg'[c.r], c.entity)
               /\ reg'[c.r] = registry_destroy(c.before, c.entity)
               /\ lastCall' = <<>>]_vars

\* C33 witness: destroy(e) of an entity with two components stands between its two
\* statements: e is not valid any more and still has its components in the arrays
C33_Witness ==
    /\ lastCall # <<>>
    /\ lastCall[1].op = "destroy"
    /\ Cardinality(getSignature(lastCall[1].before.em, lastCall[1].entity)) = 2
    /\ ~valid(reg["A"].em, lastCall[1].entity)
    /\ \A i \in 1..Len(reg["A"].cm.dense) : contains(reg["A"].cm.dense[i], lastCall[1].entity)
    /\ Live(reg["A"]) # {}

\* the signatures of the groups of store st that entity e is a member of
groupsOf(st, e) ==
    {S \in DOMAIN st.em.entityGroups : contains(st.em.entityGroups[S], e)}

\* C34: create<Ts...> computes the complete signature first (the entity manager is not
\* touched meanwhile), allocates the entity directly into the group of that signature,
\* and only then stores the components, leaving the entity manager as it is: from its
\* first appearance in the group index to the end of the call the entity is a member of
\* the group of the final signature and of no other, and the three statements together
\* are create<Ts...>.
C34_SignatureFirst ==
    [][/\ (lastCall = <<>> /\ lastCall' # <<>> /\ lastCall'[1].op = "create") =>
           LET c == lastCall'[1]
           IN  /\ reg'[c.r].em = reg[c.r].em
               /\ c.signature = {ids'.id[c.Ts[i]] : i \in 1..Len(c.Ts)}
       /\ \A r \in Stores : \A e \in Entities :
               (groupsOf(reg[r], e) = {} /\ groupsOf(reg'[r], e) # {}) =>
                   /\ lastCall # <<>> /\ lastCall[1].pc = "createEntity" /\ lastCall[1].r = r
                   /\ e = lastCall'[1].entity
                   /\ groupsOf(reg'[r], e) = {lastCall[1].signature}
                   /\ getSignature(reg'[r].em, e) = lastCall[1].signature
                   /\ reg'[r].cm = reg[r].cm
       /\ (lastCall # <<>> /\ lastCall[1].op = "create" /\ lastCall[1].pc = "emplace") =>
           LET c == lastCall[1]
           IN  /\ groupsOf(reg[c.r], c.entity) = {c.signature}
               /\ \A i \in c.signature : ~contains(get(reg[c.r].cm, i), c.entity)
               /\ reg'[c.r].em = reg[c.r].em
               /\ \A n \in 1..Len(c.Ts) :
                      /\ has(reg'[c.r], ids, c.entity, c.Ts[n])
                      /\ get(get(reg'[c.r].cm, ids.id[c.Ts[n]]), c.entity) = c.values[n]
               /\ reg'[c.r] = registry_create(c.before, ids, c.Ts, c.values)
               /\ lastCall' = <<>>]_vars

\* C34 witness: create<Position, Velocity> has allocated its entity and not yet stored
\* the components: the entity is in the group of the two-bit signature, next to a live
\* entity of another group
C34_Witness ==
    /\ lastCall # <<>>
    /\ lastCall[1].op = "create"
    /\ lastCall[1].pc = "emplace"
    /\ Len(lastCall[1].Ts) = 2
    /\ groupsOf(reg["A"], lastCall[1].entity) = {{0, 1}}
    /\ \A i \in {0, 1} : ~contains(get(reg["A"].cm, i), lastCall[1].entity)
    /\ \E e \in Live(reg["A"]) : e # lastCall[1].entity /\ groupsOf(reg["A"], e) = {{1}}

\* C35: registerComponent<T>() on a store that already has an array for T changes
\* nothing: the array and every component in it are kept, no id is assigned, and the
\* set of registered ids is what it was after the first call (a further call would again
\* change nothing); on a store without an array for T it adds an empty one and keeps the
\* others.
C35_RegisterIdempotent ==
    (lastCall # <<>> /\ lastCall[1].op = "registerComponent") =>
        LET c == lastCall[1]
            known == c.T \in DOMAIN c.g.id /\ contains(c.before.cm, c.g.id[c.T])
            id == ids.id[c.T]
        IN  /\ known => (reg[c.r] = c.before /\ ids = c.g)
            /\ ~known =>
                   /\ reg[c.r].em = c.before.em
                   /\ get(reg[c.r].cm, id) = sparse_set
                   /\ \A i \in 0..ids.nextID : i # id =>
                          /\ contains(reg[c.r].cm, i) <=> contains(c.before.cm, i)
                          /\ contains(c.before.cm, i) => get(reg[c.r].cm, i) = get(c.before.cm, i)
            /\ contains(reg[c.r].cm, id)
            /\ registerComponent(reg[c.r].cm, getComponentID(ids, c.T).id[c.T]) = reg[c.r].cm
            /\ getComponentID(ids, c.T) = ids

\* C35 witness: registerComponent<Position>() was called on a store whose Position array
\* held the components of two entities, next to a Velocity array
C35_Witness ==
    /\ lastCall # <<>>
    /\ lastCall[1].op = "registerComponent"
    /\ lastCall[1].T = "Position"
    /\ "Position" \in DOMAIN lastCall[1].g.id
    /\ contains(lastCall[1].before.cm, lastCall[1].g.id["Position"])
    /\ Len(get(lastCall[1].before.cm, lastCall[1].g.id["Position"]).dense) = 2
    /\ 1 \in Range(get(reg["A"].cm, ids.id["Position"]).dense)
    /\ Len(reg["A"].cm.dense) = 2

\* C36: reserve(n) and shrink_to_fit() have no effect on contents: contains(k) and get(k)
\* are the same before and after for every key k, the dense order is unchanged and the
\* index-consistency invariant still holds; reserve changes no vector, and shrink_to_fit
\* cuts the sparse vector to the largest bound key + 1 (to length 0 on an empty set),
\* dropping only null entries.
C36_CapacityFrame ==
    [][(ssOp'[1] \in {"reserve", "shrink_to_fit"}) =>
           /\ \A k \in 0..(MaxKey + 1) :
                  /\ contains(ss', k) <=> contains(ss, k)
                  /\ contains(ss, k) => get(ss', k) = get(ss, k)
                  /\ get_thrown(ss', k) = get_thrown(ss, k)
           /\ ss'.dense = ss.dense
           /\ ss'.denseToSparse = ss.denseToSparse
           /\ C5_IndexConsistency'
           /\ ssOp'[1] = "reserve" => ss' = ss
           /\ ssOp'[1] = "shrink_to_fit" =>
                  /\ Len(ss'.sparse) = (IF DOMAIN ssBound = {} THEN 0 ELSE largest(DOMAIN ssBound) + 1)
                  /\ ss'.sparse = SubSeq(ss.sparse, 1, Len(ss'.sparse))
                  /\ \A i \in (Len(ss'.sparse) + 1)..Len(ss.sparse) : ss.sparse[i] = null]_vars

\* C36 witness: shrink_to_fit has cut the sparse vector of a set that binds keys 1 and 0,
\* in that dense order, after a larger key was erased
C36_Witness ==
    /\ ssOp = <<"shrink_to_fit">>
    /\ ss.denseToSparse = <<1, 0>>
    /\ MaxKey \in DOMAIN ssPast
    /\ Len(ss.sparse) = 2
    /\ get(ss, 1) = ssBound[1] /\ get(ss, 0) = ssBound[0]

\* C36 witness for reserve: reserve was called on a set that binds two keys
C36_ReserveWitness ==
    /\ ssOp[1] = "reserve"
    /\ ssCapacity = MaxReserve
    /\ Len(ss.dense) = 2

\* C37: emplace appends at the end of the dense vector, and clear() empties all three
\* vectors; so a loop over a set that has had no erase since it was last empty (freshly
\* constructed, cleared, or emptied by erase) yields the (key, value) pairs in the order
\* of their emplace calls, the i-th pair's key being denseToSparse[i].
C37_InsertionOrder ==
    /\ ~ssOrder.erased => iterate(ss) = ssOrder.order
    /\ \A i \in 1..Len(iterate(ss)) :
           /\ iterate(ss)[i][1] = ss.denseToSparse[i]
           /\ iterate(ss)[i][2] = get(ss, ss.denseToSparse[i])
    /\ Len(iterate(ss)) = Cardinality(DOMAIN ssBound)
    /\ ssOp = <<"clear">> => ss = sparse_set
    /\ (Len(ssOp) = 3 /\ ssOp[1] = "emplace" /\ ssOp[3]) =>
           /\ ss.denseToSparse[Len(ss.denseToSparse)] = ssOp[2]
           /\ ss.dense[Len(ss.dense)] = ssBound[ssOp[2]]

\* C37 witness: after a clear of a set that had elements and erasures, the keys 2, 0, 1
\* were emplaced in that order, and the loop sees them in that order
C37_Witness ==
    /\ ssPast # << >>
    /\ ~ssOrder.erased
    /\ Len(ssOrder.order) = 3
    /\ [i \in 1..3 |-> iterate(ss)[i][1]] = <<2, 0, 1>>
    /\ iterate(ss)[1][2] # iterate(ss)[2][2]

\* C37: after an erase that left elements behind the order of the calls is not kept: the
\* last element stands in the place of the erased one
C37_ErasedWitness ==
    /\ ssOrder.erased
    /\ Len(ssOp) = 5 /\ ssOp[1] = "erase"
    /\ ss.denseToSparse = <<2, 1>>
    /\ ssOp[2] = 0 /\ ssOp[4] = 0

\* C38: emplace<T>(e), remove<T>(e) and destroy(e) change nothing about any other live
\* entity: the ids, signatures and component values of all entities other than e, and
\* (for emplace and remove) e's components of types other than T, are the same before and
\* after, although component arrays and groups swap-remove internally; e itself gains T
\* with the given value, loses T, or stops being live.
C38_SingleEntityFrame ==
    (lastCall # <<>> /\ lastCall[1].op \in {"emplace", "remove", "destroy"}) =>
        LET c == lastCall[1]
            e == c.entity
            before == c.before
            after == reg["A"]
            id == ids.id[c.T]
        IN  /\ Live(after) = IF c.op = "destroy" THEN Live(before) \ {e} ELSE Live(before)
            /\ \A x \in Live(before) \ {e} : Content(after)[x] = Content(before)[x]
            /\ c.op # "destroy" =>
                   /\ getSignature(after.em, e) \ {id} = getSignature(before.em, e) \ {id}
                   /\ \A i \in getSignature(before.em, e) \ {id} :
                          get(get(after.cm, i), e) = get(get(before.cm, i), e)
            /\ (c.op = "emplace" /\ id \notin getSignature(before.em, e)) =>
                   /\ id \in getSignature(after.em, e)
                   /\ get(get(after.cm, id), e) = c.value
            /\ c.op = "remove" =>
                   /\ id \notin getSignature(after.em, e)
                   /\ contains(before.cm, id) => ~contains(get(after.cm, id), e)
            /\ c.op = "destroy" => NoComponents(after, e)

\* C38 witness: destroy(1) on a store where entities 1 and 2 hold Position and Velocity
\* with different values: 2 was moved into the first dense slot of both arrays and of
\* the group, and kept its values
C38_Witness ==
    /\ lastCall # <<>>
    /\ lastCall[1].op = "destroy"
    /\ lastCall[1].entity = 1
    /\ Len(lastCall[1].before.cm.dense) = 2
    /\ {0, 1} \in DOMAIN lastCall[1].before.em.entityGroups
    /\ \A i \in {0, 1} :
           /\ get(lastCall[1].before.cm, i).denseToSparse = <<1, 2>>
           /\ get(reg["A"].cm, i).denseToSparse = <<2>>
           /\ get(lastCall[1].before.cm, i).dense[1] # get(lastCall[1].before.cm, i).dense[2]
    /\ lastCall[1].before.em.entityGroups[{0, 1}].dense = <<1, 2>>
    /\ reg["A"].em.entityGroups[{0, 1}].dense = <<2>>

\* C38 witness for remove: remove<Position>(1) moved entity 2's Position into the first
\* slot while 1 kept its Velocity
C38_RemoveWitness ==
    /\ lastCall # <<>>
    /\ lastCall[1].op = "remove"
    /\ lastCall[1].entity = 1
    /\ contains(lastCall[1].before.cm, ids.id[lastCall[1].T])
    /\ get(lastCall[1].before.cm, ids.id[lastCall[1].T]).denseToSparse = <<1, 2>>
    /\ get(reg["A"].cm, ids.id[lastCall[1].T]).denseToSparse = <<2>>
    /\ Cardinality(getSignature(reg["A"].em, 1)) = 1
    /\ Cardinality(getSignature(reg["A"].em, 2)) = 2

\* C38 witness for emplace: emplace<T>(2) on an entity that had the other component,
\* next to entity 1 that had T
C38_EmplaceWitness ==
    /\ lastCall # <<>>
    /\ lastCall[1].op = "emplace"
    /\ lastCall[1].entity = 2
    /\ Cardinality(getSignature(lastCall[1].before.em, 2)) = 1
    /\ Cardinality(getSignature(reg["A"].em, 2)) = 2
    /\ get(reg["A"].cm, ids.id[lastCall[1].T]).denseToSparse = <<1, 2>>

\* C39: copy assignment replaces the target: after a = b the component arrays of a are
\* exactly deep clones of the arrays of b, whatever types a had registered before (also
\* types registered in b); the assignment never hits a duplicate-key condition and keeps
\* no array of a's previous contents.
C39_AssignReplaces ==
    (lastCall # <<>> /\ lastCall[1].op = "assign") =>
        /\ lastCall[1].thrown = "ok"
        /\ reg[lastCall[1].r].cm = registry_copy(lastCall[1].other).cm

\* what the assignment does: it emplaces clones of b's arrays next to the arrays a has.
\* It replaces nothing: with no array in a the result is the clone of b, with arrays of
\* other types only they are all kept beside the clones, and with a type of b already
\* registered in a the emplace raises DuplicateKey and a keeps its own array of that type
C39_AssignAppends ==
    (lastCall # <<>> /\ lastCall[1].op = "assign") =>
        LET c == lastCall[1]
            mine == Range(c.before.cm.denseToSparse)
            theirs == Range(c.other.cm.denseToSparse)
            after == reg[c.r]
        IN  /\ after.em = c.other.em
            /\ c.thrown = (IF mine \cap theirs = {} THEN "ok" ELSE "DuplicateKey")
            /\ \A i \in mine : contains(after.cm, i) /\ get(after.cm, i) = get(c.before.cm, i)
            /\ Range(after.cm.denseToSparse) \subseteq mine \cup theirs
            /\ \A i \in Range(after.cm.denseToSparse) \ mine : get(after.cm, i) = get(c.other.cm, i)
            /\ c.thrown = "ok" => Range(after.cm.denseToSparse) = mine \cup theirs
            /\ mine = {} => after = registry_copy(c.other)

\* C39 witness: A = B where A held Position components of its own entities and B holds
\* a Position component: the assignment raised and A's array is the one it had
C39_Witness ==
    /\ lastCall # <<>>
    /\ lastCall[1].op = "assign"
    /\ lastCall[1].thrown = "DuplicateKey"
    /\ Len(lastCall[1].before.cm.dense) = 1
    /\ Len(lastCall[1].before.cm.dense[1].dense) = 2
    /\ Len(lastCall[1].other.cm.dense) = 1
    /\ lastCall[1].other.cm.dense[1].dense = <<1>>
    /\ reg["A"].cm = lastCall[1].before.cm

\* C39: A = B where A's only array is of a type B lacks: no error, and the array stays
\* in A with the components of entities that B's entity manager does not know
C39_KeptWitness ==
    /\ lastCall # <<>>
    /\ lastCall[1].op = "assign"
    /\ lastCall[1].thrown = "ok"
    /\ Len(lastCall[1].before.cm.dense) = 1
    /\ Len(lastCall[1].other.cm.dense) = 1
    /\ Len(reg["A"].cm.dense) = 2
    /\ \E e \in Entities : ~valid(reg["A"].em, e) /\ ~NoComponents(reg["A"], e)

\* the ids below nextID are split between the live entities and the queue of free ids
Partition(em) ==
    LET queue == em.availableEntityIDs
    IN  /\ \A id \in 1..(em.nextID - 1) :
               \/ valid(em, id) /\ id \notin Range(queue)
               \/ ~valid(em, id) /\ Once(queue, id)
        /\ \A i, j \in 1..Len(queue) : i # j => queue[i] # queue[j]
        /\ Range(queue) \subseteq 1..(em.nextID - 1)
        /\ \A id \in 0..(em.nextID + 1) : valid(em, id) => id \in 1..(em.nextID - 1)
        /\ em.livingEntitiesCount + Len(queue) = em.nextID - 1

\* C40: in every reachable state of the entity manager every id in [1, nextID) is either
\* live or in the queue of free ids exactly once, never both; the queue holds no
\* duplicates and no id outside [1, nextID); and nextID never decreases.
C40_FreeListPartition ==
    /\ []Partition(mgr)
    /\ [][mgr'.nextID >= mgr.nextID]_vars

\* the same for the entity manager of a registry
C40_RegistryPartition ==
    /\ [](\A r \in Stores : Partition(reg[r].em))
    /\ [][\A r \in Stores : reg'[r].em.nextID >= reg[r].em.nextID]_vars

\* C40 witness: the counter has grown past the pre-allocated ids; one id is live and
\* three are queued, a never-used one before two destroyed ones
C40_Witness ==
    /\ mgr.nextID = NumEntities + 2
    /\ mgrCreated = {1}
    /\ mgr.availableEntityIDs = <<3, 2>> \/ mgr.availableEntityIDs = <<2, 3>>
    /\ mgrUsed = {1, 2, 3}

====
